---- MODULE Spec2Model ----
(***************************************************************************)
(* SD/MMC-over-SPI block storage driver of the aurora firmware             *)
(* (src/src/drivers/mmc/spi_mmc.c, src/src/drivers/spi.c).                 *)
(*                                                                         *)
(* Tasks call the driver operations probe(), n_sectors() and blk_read()    *)
(* on devices that share one spi_config.  Every command frame sent by      *)
(* spi_mmc_send_cmd() is one step; the card's answer is drawn from a small *)
(* set of bytes.  The bus is driven in polled mode (use_dma = false), so   *)
(* the semaphore of the spi_config is used by spi_lock()/spi_unlock()      *)
(* alone.  A byte transfer may fail: the environment chooses what          *)
(* spi_mmc_transfer() returns.                                             *)
(*                                                                         *)
(* The bus layer of src/src/drivers/spi.c is modelled beside it: the       *)
(* registry of initialised buses, aurora_spi_init()/aurora_spi_deinit(),   *)
(* DMA transfers and the DMA interrupt handler.                            *)
(*                                                                         *)
(* The third part is the flight state machine of                           *)
(* src/lib/state/simple_state.c with its five k_timers; time passes in     *)
(* steps of Tick ms between two calls.  Its caller on the sensor board,    *)
(* the state-machine task of src/sensor_board/src/main.c, is the fourth.   *)
(***************************************************************************)
EXTENDS Integers, Sequences, FiniteSets, TLC

(* ------------------------------------------------------------------ *)
(* Bounds of the model                                                  *)
(* ------------------------------------------------------------------ *)
MaxCount == 2        \* largest block count passed to blk_read()
MaxBlk   == 3        \* largest start block passed to blk_read()

Tasks  == {"t1", "t2"}
\* two cards on one bus (two chip-select pins); OneDev: the card most
\* behaviours use
Devs   == {"d1", "d2"}
OneDev == {"d1"}
NoTask == "none"
NoDev  == "none"

(* ------------------------------------------------------------------ *)
(* Result codes (errno values are kept symbolic)                        *)
(* ------------------------------------------------------------------ *)
OK         == "0"
EIO        == "-EIO"
EINVAL     == "-EINVAL"
ETIMEDOUT  == "-ETIMEDOUT"
EHOSTDOWN  == "-EHOSTDOWN"
EBADMSG    == "-EBADMSG"

(* Card types of dev->version *)
SD_CARD_TYPE_UNKNOWN == "UNKNOWN"
SD_CARD_TYPE_SD1     == "SD1"
SD_CARD_TYPE_SD2     == "SD2"
SD_CARD_TYPE_SDHC    == "SDHC"

(* ------------------------------------------------------------------ *)
(* Bytes and bits                                                       *)
(* ------------------------------------------------------------------ *)
Pow2(n) == 2 ^ n
Bit(x, n) == (x \div Pow2(n)) % 2

RECURSIVE BitAndUpTo(_, _, _)
BitAndUpTo(a, b, n) ==
    IF n < 0 THEN 0
    ELSE Bit(a, n) * Bit(b, n) * Pow2(n) + BitAndUpTo(a, b, n - 1)

\* a & b on 8-bit operands
BitAnd(a, b) == BitAndUpTo(a, b, 7)

\* A uint32_t is kept as its two 16-bit halves, so that the values near
\* 2^32 and the wrap-around of + and * are those of the C type.
HALF == 65536
U32(n) == [hi |-> (n \div HALF) % HALF, lo |-> n % HALF]

\* a + n on uint32_t, for a uint32_t a and an n below 2^16
add_u32(a, n) ==
    LET l == a.lo + n
    IN  [hi |-> (a.hi + l \div HALF) % HALF, lo |-> l % HALF]

\* a * n on uint32_t, for a uint32_t a and an n below 2^15
mul_u32(a, n) ==
    LET l == a.lo * n
    IN  [hi |-> (a.hi * n + l \div HALF) % HALF, lo |-> l % HALF]

\* (uint64_t)a > n for a uint32_t a and a block count n below 2^31
gt_u32(a, n) ==
    \/ a.hi > n \div HALF
    \/ (a.hi = n \div HALF /\ a.lo > n % HALF)

R1_SPI_IDLE            == 1
R1_SPI_ILLEGAL_COMMAND == 4
R1_SPI_ERROR           == 128
NoByte                 == 255    \* 0xff: the idle level of MISO

MMC_CMD_GO_IDLE_STATE       == 0
MMC_CMD_SEND_EXT_CSD        == 8
MMC_CMD_SEND_CSD            == 9
MMC_CMD_STOP_TRANSMISSION   == 12
MMC_CMD_READ_SINGLE_BLOCK   == 17
MMC_CMD_READ_MULTIPLE_BLOCK == 18
SD_CMD_APP_SEND_OP_COND     == 41
MMC_CMD_APP_CMD             == 55
MMC_CMD_SPI_READ_OCR        == 58
CMD_INIT_CLOCKS             == 63   \* cmd field of the all-ones power-settle frame
NoCmd                       == CMD_INIT_CLOCKS + 1   \* no frame sent yet

BLOCK_SIZE_SD      == 512
CMD8_ARG           == 426           \* 0x1AA
CMD8_ECHO_MASK     == 170           \* 0xAA
OCR_R1_MASK        == 192           \* 0xC0
ACMD41_HCS_ARG     == 1073741824    \* 0x40000000
INIT_CLOCK_ARG     == [hi |-> HALF - 1, lo |-> HALF - 1]   \* 0xffffffff
RESET_RETRIES      == 10
ACMD41_MAX_RETRIES == 10
SETTLE_FRAMES      == 2             \* 74 / (6 * 8) + 1
SEM_MAX_PERMITS    == 1
SEM_INITIAL        == 1             \* after sem_init(.., 0, 1) and spi_unlock()

(* ------------------------------------------------------------------ *)
(* Response shapes                                                      *)
(* ------------------------------------------------------------------ *)
mmc_cmd_get_resp_type(cmd) ==
    CASE cmd \in {1, 13, 16, 17, 18, 24, 25, 55, 58} -> "R1"
      [] cmd \in {7, 12, 38}                        -> "R1b"
      [] cmd \in {2, 9, 10}                         -> "R2"
      [] cmd = 3                                    -> "R6"
      [] cmd = 8                                    -> "R7"
      [] OTHER                                      -> "NONE"

spi_mmc_resp_size(resp_type) ==
    CASE resp_type \in {"R1", "R1b"}      -> 1
      [] resp_type = "R2"                 -> 2
      [] resp_type \in {"R3", "R6", "R7"} -> 5
      [] OTHER                            -> 1

(* ------------------------------------------------------------------ *)
(* The card: the bytes it may put on MISO                               *)
(* ------------------------------------------------------------------ *)
\* r1[c]: first byte seen by the response poll of spi_mmc_send_cmd after
\*        command c, a valid R1 (bit 7 clear) or 0xff when none of the 16
\*        polls returned one
\* echo:  last byte of a five-byte response (the echo-back of CMD8)
\* ready: byte seen by spi_mmc_wait_ready when its loop ends
\* csds:  the CSD registers the card may send, as their fields
\* block: what may happen in the data phase of one block
\*        "ok"        token, data and CRC arrive and the CRC matches
\*        "no_token"  no 0xFE before the deadline of spi_mmc_wait_token
\*        "data_xfer" spi_mmc_transfer of the data bytes fails
\*        "crc_xfer"  spi_mmc_transfer of a CRC16 byte fails
\*        "crc_bad"   the CRC16 received differs from the one computed
\* xfer:  whether a byte transfer of a command frame may fail
\*        (spi_mmc_transfer returns non-zero)
\* crc:   the values of CONFIG_MMC_CRC_ENABLED the build may have
\* blks:  the start blocks callers pass to blk_read()
CmdIndex == 0..63

\* CSD version 1.0 registers: READ_BL_LEN = 9 with C_SIZE = 0 and
\* C_SIZE_MULT = 0 (4 blocks); the same with C_SIZE = 1 (8 blocks); the
\* register of the 0x3AB example; the largest capacity the fields can
\* express (2^24 blocks); an all-zero register.  And a version 2.0
\* register with C_SIZE = 0x1000.  And a register with 256-byte read blocks
\* (C_SIZE = 255, C_SIZE_MULT = 1, READ_BL_LEN = 8: 1024 blocks).
PlainCsds == {[structure |-> 0, c_size |-> 0, c_size_mult |-> 0, read_bl_len |-> 9],
              [structure |-> 0, c_size |-> 1, c_size_mult |-> 0, read_bl_len |-> 9],
              [structure |-> 0, c_size |-> 0, c_size_mult |-> 0, read_bl_len |-> 0],
              [structure |-> 1, c_size |-> 4096, c_size_mult |-> 0, read_bl_len |-> 0]}
WideCsds  == {[structure |-> 0, c_size |-> 939, c_size_mult |-> 2, read_bl_len |-> 9],
              [structure |-> 0, c_size |-> 4095, c_size_mult |-> 7, read_bl_len |-> 12],
              [structure |-> 0, c_size |-> 255, c_size_mult |-> 1, read_bl_len |-> 8]}

\* a card that may answer anything, on a bus whose transfers may fail
AnyCard   == [r1 |-> [c \in CmdIndex |-> {0, 1, 5, 64, 255}],
              echo |-> {170, 85, 2}, ready |-> {0, 1, 255},
              csds |-> PlainCsds \cup WideCsds,
              block |-> {"ok", "no_token", "data_xfer", "crc_xfer", "crc_bad"},
              xfer |-> BOOLEAN, crc |-> BOOLEAN,
              blks |-> {U32(0), U32(MaxBlk), [hi |-> 128, lo |-> 0],
                        [hi |-> HALF - 1, lo |-> HALF - 1]}]

\* a card that answers as the SD protocol prescribes: idle to CMD0, idle or
\* illegal command to CMD8, busy or ready to ACMD41, no error otherwise
PlainCard == [r1 |-> [c \in CmdIndex |->
                        CASE c = MMC_CMD_GO_IDLE_STATE   -> {1}
                          [] c = MMC_CMD_SEND_EXT_CSD    -> {1, 5}
                          [] c = MMC_CMD_APP_CMD         -> {1}
                          [] c = SD_CMD_APP_SEND_OP_COND -> {0, 1}
                          [] OTHER                       -> {0}],
              echo |-> {170}, ready |-> {255},
              csds |-> PlainCsds, block |-> {"ok", "no_token"},
              xfer |-> {FALSE}, crc |-> {FALSE},
              blks |-> {U32(0), U32(MaxBlk)}]

(* ------------------------------------------------------------------ *)
(* spi_mmc_send_cmd: the receive buffer and the return value for one    *)
(* frame, given the first byte r1 of the response poll and the last     *)
(* byte of a longer response                                            *)
(* ------------------------------------------------------------------ *)
RespValid(r1) == BitAnd(r1, R1_SPI_ERROR) = 0

spi_mmc_send_cmd_rx(cmd, r1, last) ==
    LET n == spi_mmc_resp_size(mmc_cmd_get_resp_type(cmd))
    IN  IF RespValid(r1)
        THEN [j \in 1..n |-> IF j = 1 THEN r1 ELSE IF j = n THEN last ELSE 0]
        ELSE [j \in 1..n |-> NoByte]

spi_mmc_send_cmd_ret(r1) == IF RespValid(r1) THEN OK ELSE EIO

(* ------------------------------------------------------------------ *)
(* Semaphore of the spi_config                                          *)
(* ------------------------------------------------------------------ *)
\* sem_acquire_timeout_ms(&sem, 1): takes a permit when there is one;
\* with no permit it gives up after 1 ms and returns false
sem_acquire_ok(s)    == s > 0
sem_after_acquire(s) == IF s > 0 THEN s - 1 ELSE s
\* sem_release: adds a permit unless max_permits is reached
sem_release(s) == IF s < SEM_MAX_PERMITS THEN s + 1 ELSE s

\* a probe that forgets the flag and brings the card up again
probe_always_inits(d_initialized) == FALSE

\* spi_mmc_probe(): make sure init is only run once
probe_skips_init(d_initialized) == d_initialized = TRUE

(* ------------------------------------------------------------------ *)
(* State                                                                *)
(* ------------------------------------------------------------------ *)
VARIABLES
    pc,        \* pc[t]: where task t is in the driver
    loc,       \* loc[t]: the C locals of the operation task t runs
    gh,        \* gh[t]: history of the running call (not read by the code)
    dev,       \* dev[d]: struct mmc_dev (version, initialized, num_blocks)
    spi_state, \* spi->state: initialized, sem (permits of the semaphore)
    mtx,       \* owner of sd_init_driver_mutex
    baud,      \* "low" (400 kHz) or "cfg" (spi->baud_rate)
    wire       \* the last command frame put on the bus

\* the block driver and its card
cardvars == <<pc, loc, gh, dev, spi_state, mtx, baud, wire>>

\* The buses of src/src/drivers/spi.c: their life cycle, the registry of
\* the interrupt handler and the DMA transfers.
VARIABLES
    bus,       \* bus[b]: struct spi_config b and the state it points to
    lst,       \* lst[n]: next and prev of the list_head n (registry, nodes)
    lk,        \* owners of spi_drivers.mutex and of the init/deinit mutexes
    bpc,       \* bpc[t]: where task t is in spi.c
    bloc,      \* bloc[t]: the bus task t works on and what its call returned
    isr,       \* the DMA interrupt handler: position and locals
    hist       \* history of the bus calls (not read by the code)

busvars == <<bus, lst, lk, bpc, bloc, isr, hist>>

\* The flight state machine of src/lib/state/simple_state.c.
VARIABLES
    current_state,     \* static enum sm_state current_state
    th,                \* static struct sm_thresholds th
    timer,             \* the k_timers dt_ab, dt_l, to_a, to_m, to_r
    running_timers,    \* static int running_timers[NUM_TIMERS]
    previous_altitude, \* static float previous_altitude of sm_update()
    smh                \* history of the updates (not read by the code)

smvars == <<current_state, th, timer, running_timers, previous_altitude, smh>>

\* The state-machine task of src/sensor_board/src/main.c.
VARIABLES
    board              \* position of the task and the sensor globals

boardvars == <<board>>

vars == <<cardvars, busvars, smvars, boardvars>>

NoLoc == [op |-> "none", dev |-> NoDev, ret |-> OK, i |-> 0, resp |-> NoByte,
          nret |-> 0, c8 |-> <<>>, blk |-> U32(0), len |-> 0, cnt |-> 0,
          rd |-> OK, blocks |-> 0]

\* locked: what spi_lock() returned       sent: this call sent a frame
\* ran: spi_mmc_init was entered          entryInit, entryVer: dev on entry
\* rst: what spi_mmc_send_reset returned  idle: a CMD0 answer had the idle bit
\* n41, n58: ACMD41, CMD58 frames sent   ccs: capacity bit of the OCR sent
\* c8r1: first byte of the CMD8 answer    vc: class given at voltage check
\* last41: the last answer to ACMD41      aborted: poll ended by CMD55/ready
\* busy41: ACMD41 answers with idle bit   bad58: CMD58 got no valid R1
\* rdr1: the answer to CMD17/CMD18        n12, stop12: CMD12 frames, answer
\* xfail: a byte transfer failed          bout, bret: the last data phase and
\* nbuf: blocks copied to the buffer        what __spi_mmc_read_block returned
\* csd: the fields of the CSD the card sent
\* r55: the answer to the CMD55 of the send-command call in progress
NoGh == [locked |-> FALSE, sent |-> FALSE, ran |-> FALSE,
         entryInit |-> FALSE, entryVer |-> SD_CARD_TYPE_UNKNOWN,
         rst |-> OK, idle |-> FALSE,
         c8r1 |-> NoByte, vc |-> SD_CARD_TYPE_UNKNOWN,
         n41 |-> 0, busy41 |-> 0, last41 |-> NoByte, aborted |-> FALSE,
         n58 |-> 0, bad58 |-> FALSE, ccs |-> FALSE,
         rdr1 |-> NoByte, n12 |-> 0, stop12 |-> NoByte, xfail |-> FALSE,
         bout |-> "none", bret |-> OK, nbuf |-> 0, csd |-> <<>>,
         r55 |-> NoByte]

NoWire == [task |-> NoTask, dev |-> NoDev, cmd |-> NoCmd, arg |-> U32(0),
           init |-> FALSE, baud |-> "cfg"]

CardInit ==
    /\ pc   = [t \in Tasks |-> "idle"]
    /\ loc  = [t \in Tasks |-> NoLoc]
    /\ gh   = [t \in Tasks |-> NoGh]
    /\ dev  = [d \in Devs |-> [version |-> SD_CARD_TYPE_UNKNOWN,
                               initialized |-> FALSE, num_blocks |-> 0]]
    /\ spi_state = [initialized |-> TRUE, sem |-> SEM_INITIAL]
    /\ mtx  = NoTask
    /\ baud = "cfg"
    /\ wire = NoWire

\* one frame of task t for device d goes on the bus, at the rate the bus
\* is set to
Frame(t, d, cmd, arg) ==
    [task |-> t, dev |-> d, cmd |-> cmd, arg |-> arg,
     init |-> dev[d].initialized, baud |-> baud]

Set(f, t, r) == [f EXCEPT ![t] = r]

\* spi_lock(ctx->spi) and spi_unlock(ctx->spi) on the state of the bus
spi_lock(st)   == [st EXCEPT !.sem = sem_after_acquire(@)]
spi_unlock(st) == [st EXCEPT !.sem = sem_release(@)]

\* a call that has returned hands its result to the caller before the
\* system goes on
Returning == \E u \in Tasks : pc[u] = "done"

(* ------------------------------------------------------------------ *)
(* Callers: a task that is not in the driver calls one operation        *)
(* ------------------------------------------------------------------ *)
CallProbe(t, D) ==
    /\ pc[t] = "idle" /\ ~Returning
    /\ \E d \in D :
          loc' = Set(loc, t, [NoLoc EXCEPT !.op = "probe", !.dev = d])
    /\ pc' = Set(pc, t, "p_enter")
    /\ UNCHANGED <<busvars, smvars, boardvars, gh, dev, spi_state, mtx, baud, wire>>

CallSectors(t, D) ==
    /\ pc[t] = "idle" /\ ~Returning
    /\ \E d \in D :
          /\ loc' = Set(loc, t, [NoLoc EXCEPT !.op = "sectors", !.dev = d])
          /\ gh' = Set(gh, t, [NoGh EXCEPT !.entryInit = dev[d].initialized])
    /\ pc' = Set(pc, t, "s_lock")
    /\ UNCHANGED <<busvars, smvars, boardvars, dev, spi_state, mtx, baud, wire>>

CallRead(t, C, D) ==
    /\ pc[t] = "idle" /\ ~Returning
    /\ \E d \in D, blk \in C.blks, len \in 0..MaxCount :
          /\ loc' = Set(loc, t, [NoLoc EXCEPT !.op = "read", !.dev = d,
                                             !.blk = blk, !.len = len])
          /\ gh' = Set(gh, t, [NoGh EXCEPT !.entryInit = dev[d].initialized])
    /\ pc' = Set(pc, t, "r_check")
    /\ UNCHANGED <<busvars, smvars, boardvars, dev, spi_state, mtx, baud, wire>>

(* ------------------------------------------------------------------ *)
(* spi_mmc_probe                                                        *)
(* ------------------------------------------------------------------ *)
\* mutex_enter_blocking(&sd_init_driver_mutex); if (dev->initialized) goto out
ProbeEnter(t) ==
    /\ pc[t] = "p_enter" /\ ~Returning
    /\ mtx = NoTask
    /\ mtx' = t
    /\ LET d == loc[t].dev IN
         /\ gh' = Set(gh, t, [gh[t] EXCEPT !.entryInit = dev[d].initialized,
                                          !.entryVer = dev[d].version])
         /\ IF probe_skips_init(dev[d].initialized)
            THEN /\ loc' = Set(loc, t, [loc[t] EXCEPT !.ret = OK])
                 /\ pc' = Set(pc, t, "p_out")
            ELSE /\ loc' = loc
                 /\ pc' = Set(pc, t, "i_lock")
    /\ UNCHANGED <<busvars, smvars, boardvars, dev, spi_state, baud, wire>>

\* out: mutex_exit(&sd_init_driver_mutex); return ret
ProbeSkip(t) ==
    /\ pc[t] = "p_out" /\ ~Returning
    /\ mtx' = NoTask
    /\ pc' = Set(pc, t, "done")
    /\ UNCHANGED <<busvars, smvars, boardvars, loc, gh, dev, spi_state, baud, wire>>

\* ret = spi_mmc_init(dev) has returned: if (!ret) dev->initialized = true
ProbeFinish(t) ==
    /\ pc[t] = "p_fin" /\ ~Returning
    /\ dev' = IF loc[t].ret = OK
              THEN [dev EXCEPT ![loc[t].dev].initialized = TRUE]
              ELSE dev
    /\ mtx' = NoTask
    /\ pc' = Set(pc, t, "done")
    /\ UNCHANGED <<busvars, smvars, boardvars, loc, gh, spi_state, baud, wire>>

(* ------------------------------------------------------------------ *)
(* spi_mmc_init                                                         *)
(* ------------------------------------------------------------------ *)
\* spi_lock(ctx->spi); spi_mmc_go_low_frequency(ctx)
InitLock(t) ==
    /\ pc[t] = "i_lock" /\ ~Returning
    /\ spi_state' = spi_lock(spi_state)
    /\ baud' = "low"
    /\ gh' = Set(gh, t, [gh[t] EXCEPT !.locked = sem_acquire_ok(spi_state.sem),
                                     !.ran = TRUE])
    /\ loc' = Set(loc, t, [loc[t] EXCEPT !.i = 0])
    /\ pc' = Set(pc, t, "i_settle")
    /\ UNCHANGED <<busvars, smvars, boardvars, dev, mtx, wire>>

\* for (i = 0; i < 74 / 48 + 1; i++) spi_mmc_send_msg(ctx, spi_init_message, &resp)
InitSettle(t) ==
    /\ pc[t] = "i_settle" /\ ~Returning
    /\ loc[t].i < SETTLE_FRAMES
    /\ wire' = Frame(t, loc[t].dev, CMD_INIT_CLOCKS, INIT_CLOCK_ARG)
    /\ gh' = Set(gh, t, [gh[t] EXCEPT !.sent = TRUE])
    /\ IF loc[t].i + 1 < SETTLE_FRAMES
       THEN /\ loc' = Set(loc, t, [loc[t] EXCEPT !.i = @ + 1])
            /\ pc' = pc
       ELSE /\ loc' = Set(loc, t, [loc[t] EXCEPT !.i = 0, !.resp = NoByte])
            /\ pc' = Set(pc, t, "i_reset")
    /\ UNCHANGED <<busvars, smvars, boardvars, dev, spi_state, mtx, baud>>

\* the value spi_mmc_send_reset returns, from the last response and the
\* result of the last spi_mmc_send_msg
spi_mmc_send_reset_ret(resp, ret) ==
    IF BitAnd(resp, R1_SPI_ERROR) # 0 THEN EIO
    ELSE IF BitAnd(resp, R1_SPI_IDLE) = 0 THEN ETIMEDOUT
    ELSE ret

\* the loop of spi_mmc_send_reset stops on this response
reset_breaks(resp) == resp = R1_SPI_IDLE

\* one pass of the loop of spi_mmc_send_reset: CMD0 and its response
SendReset(t, C) ==
    /\ pc[t] = "i_reset" /\ ~Returning
    /\ loc[t].i < RESET_RETRIES
    /\ wire' = Frame(t, loc[t].dev, MMC_CMD_GO_IDLE_STATE, U32(0))
    /\ \E r1 \in C.r1[MMC_CMD_GO_IDLE_STATE] :
         LET rx   == spi_mmc_send_cmd_rx(MMC_CMD_GO_IDLE_STATE, r1, 0)
             ret  == spi_mmc_send_cmd_ret(r1)
             resp == rx[1]
             last == reset_breaks(resp) \/ loc[t].i + 1 >= RESET_RETRIES
             g    == [gh[t] EXCEPT
                        !.sent = TRUE,
                        !.idle = @ \/ (RespValid(r1) /\ Bit(r1, 0) = 1)]
         IN  IF ~last
             THEN /\ loc' = Set(loc, t, [loc[t] EXCEPT !.i = @ + 1,
                                                       !.resp = resp])
                  /\ gh' = Set(gh, t, g)
                  /\ pc' = pc
             ELSE \* spi_mmc_init calls spi_mmc_send_reset(ctx) as a statement:
                  \* the value it returns is dropped, its locals are gone
                  /\ gh' = Set(gh, t,
                          [g EXCEPT !.rst = spi_mmc_send_reset_ret(resp, ret)])
                  /\ loc' = Set(loc, t, [loc[t] EXCEPT !.i = 0, !.resp = NoByte])
                  /\ pc' = Set(pc, t, "v_cmd8")
    /\ UNCHANGED <<busvars, smvars, boardvars, dev, spi_state, mtx, baud>>

(* ------------------------------------------------------------------ *)
(* spi_mmc_voltage_select                                               *)
(* ------------------------------------------------------------------ *)
\* classification from the answer to CMD8: ret is the result of
\* spi_mmc_send_cmd, rx the five bytes of cmd8_resp
voltage_class(ret, rx) ==
    IF ret # OK \/ BitAnd(rx[1], R1_SPI_ILLEGAL_COMMAND) # 0
    THEN SD_CARD_TYPE_SD1
    ELSE IF BitAnd(rx[5], CMD8_ECHO_MASK) # 0
    THEN SD_CARD_TYPE_SD2
    ELSE "none"

acmd41_arg(version) == IF version = SD_CARD_TYPE_SD2 THEN ACMD41_HCS_ARG ELSE 0

VoltageCmd8(t, C) ==
    /\ pc[t] = "v_cmd8" /\ ~Returning
    /\ wire' = Frame(t, loc[t].dev, MMC_CMD_SEND_EXT_CSD, U32(CMD8_ARG))
    /\ \E r1 \in C.r1[MMC_CMD_SEND_EXT_CSD], e \in C.echo :
         LET rx  == spi_mmc_send_cmd_rx(MMC_CMD_SEND_EXT_CSD, r1, e)
             ret == spi_mmc_send_cmd_ret(r1)
             cls == voltage_class(ret, rx)
             g   == [gh[t] EXCEPT !.sent = TRUE, !.c8r1 = r1]
         IN  IF cls = "none"
             THEN \* Card did not respond to voltage select: return -EIO
                  /\ loc' = Set(loc, t, [loc[t] EXCEPT !.c8 = rx, !.ret = EIO])
                  /\ gh' = Set(gh, t, [g EXCEPT !.vc = "none"])
                  /\ dev' = dev
                  /\ pc' = Set(pc, t, "i_exit")
             ELSE /\ dev' = [dev EXCEPT ![loc[t].dev].version = cls]
                  /\ loc' = Set(loc, t, [loc[t] EXCEPT !.c8 = rx,
                                            !.resp = NoByte, !.nret = 0])
                  /\ gh' = Set(gh, t, [g EXCEPT !.vc = cls])
                  /\ pc' = Set(pc, t, "v_a55")
    /\ UNCHANGED <<busvars, smvars, boardvars, spi_state, mtx, baud>>

\* spi_mmc_send_cmd(ctx, acmd41, &response, true), first part: CMD55
Acmd55(t, C) ==
    /\ pc[t] = "v_a55" /\ ~Returning
    /\ wire' = Frame(t, loc[t].dev, MMC_CMD_APP_CMD, U32(0))
    /\ \E r1 \in C.r1[MMC_CMD_APP_CMD] :
         IF spi_mmc_send_cmd_ret(r1) # OK
         THEN \* CMD55 failed: send_cmd returns -EIO, voltage_select -EIO
              /\ loc' = Set(loc, t, [loc[t] EXCEPT !.resp = NoByte, !.ret = EIO])
              /\ gh' = Set(gh, t, [gh[t] EXCEPT !.sent = TRUE, !.r55 = r1,
                                                !.aborted = TRUE])
              /\ pc' = Set(pc, t, "i_exit")
         ELSE /\ loc' = Set(loc, t, [loc[t] EXCEPT !.resp = NoByte])
              /\ gh' = Set(gh, t, [gh[t] EXCEPT !.sent = TRUE, !.r55 = r1])
              /\ pc' = Set(pc, t, "v_ready")
    /\ UNCHANGED <<busvars, smvars, boardvars, dev, spi_state, mtx, baud>>

\* spi_mmc_wait_ready: b is the byte read when its loop of at most ten
\* dummy transfers ends
spi_mmc_wait_ready(b) == IF b > 0 /\ b # NoByte THEN EIO ELSE OK

AcmdWaitReady(t, C) ==
    /\ pc[t] = "v_ready" /\ ~Returning
    /\ \E b \in C.ready :
         IF spi_mmc_wait_ready(b) # OK
         THEN \* send_cmd returns R1_SPI_ERROR, voltage_select -EIO
              /\ loc' = Set(loc, t, [loc[t] EXCEPT !.ret = EIO])
              /\ gh' = Set(gh, t, [gh[t] EXCEPT !.aborted = TRUE,
                                                !.r55 = NoByte])
              /\ pc' = Set(pc, t, "i_exit")
         ELSE /\ loc' = loc
              /\ gh' = gh
              /\ pc' = Set(pc, t, "v_a41")
    /\ UNCHANGED <<busvars, smvars, boardvars, dev, spi_state, mtx, baud, wire>>

\* while (response == 0xff): the operating-condition poll goes round again
acmd41_again(response) == response = NoByte

\* else if (num_retries++ >= max_num_retries)
acmd41_timed_out(num_retries) == num_retries >= ACMD41_MAX_RETRIES

\* second part: the ACMD41 frame, then the rest of the loop body
Acmd41(t, C) ==
    /\ pc[t] = "v_a41" /\ ~Returning
    /\ wire' = Frame(t, loc[t].dev, SD_CMD_APP_SEND_OP_COND,
                     U32(acmd41_arg(dev[loc[t].dev].version)))
    /\ \E r1 \in C.r1[SD_CMD_APP_SEND_OP_COND] :
         LET rx  == spi_mmc_send_cmd_rx(SD_CMD_APP_SEND_OP_COND, r1, 0)
             ret == spi_mmc_send_cmd_ret(r1)
             l   == [loc[t] EXCEPT !.resp = rx[1]]
         IN  /\ gh' = Set(gh, t, [gh[t] EXCEPT
                        !.sent = TRUE, !.n41 = @ + 1, !.last41 = r1,
                        !.r55 = NoByte,
                        !.busy41 = IF RespValid(r1) /\ Bit(r1, 0) = 1
                                   THEN @ + 1 ELSE @])
             /\ IF ret # OK
                THEN /\ loc' = Set(loc, t, [l EXCEPT !.ret = EIO])
                     /\ pc' = Set(pc, t, "i_exit")
                ELSE IF acmd41_timed_out(loc[t].nret)
                THEN /\ loc' = Set(loc, t, [l EXCEPT !.ret = ETIMEDOUT,
                                                     !.nret = @ + 1])
                     /\ pc' = Set(pc, t, "i_exit")
                ELSE IF acmd41_again(rx[1])
                THEN /\ loc' = Set(loc, t, [l EXCEPT !.nret = @ + 1])
                     /\ pc' = Set(pc, t, "v_a55")
                ELSE IF dev[loc[t].dev].version = SD_CARD_TYPE_SD2
                THEN /\ loc' = Set(loc, t, [l EXCEPT !.nret = @ + 1])
                     /\ pc' = Set(pc, t, "v_cmd58")
                ELSE /\ loc' = Set(loc, t, [l EXCEPT !.nret = @ + 1, !.ret = ret])
                     /\ pc' = Set(pc, t, "i_exit")
    /\ UNCHANGED <<busvars, smvars, boardvars, dev, spi_state, mtx, baud>>

\* the card is upgraded to SDHC on this first byte of cmd8_resp after CMD58
ocr_upgrades(b) == BitAnd(b, R1_SPI_ERROR) = 0 /\ BitAnd(b, OCR_R1_MASK) # 0

\* if SD2 read OCR register to check for SDHC card
ReadOcr(t, C) ==
    /\ pc[t] = "v_cmd58" /\ ~Returning
    /\ wire' = Frame(t, loc[t].dev, MMC_CMD_SPI_READ_OCR, U32(0))
    /\ \E r1 \in C.r1[MMC_CMD_SPI_READ_OCR] :
         LET rx == spi_mmc_send_cmd_rx(MMC_CMD_SPI_READ_OCR, r1, 0)
             c  == [loc[t].c8 EXCEPT ![1] = rx[1]]
         IN  \* ccs: bit 30 of the OCR the card sends after a valid R1
          /\ \E ccs \in (IF RespValid(r1) THEN BOOLEAN ELSE {FALSE}) :
               gh' = Set(gh, t, [gh[t] EXCEPT !.sent = TRUE, !.n58 = @ + 1,
                                              !.ccs = ccs,
                                              !.bad58 = ~RespValid(r1)])
          /\ IF spi_mmc_send_cmd_ret(r1) # OK
             THEN /\ loc' = Set(loc, t, [loc[t] EXCEPT !.c8 = c, !.ret = EIO])
                  /\ dev' = dev
                  /\ pc' = Set(pc, t, "i_exit")
             ELSE /\ loc' = Set(loc, t, [loc[t] EXCEPT !.c8 = c, !.ret = OK])
                  /\ dev' = IF ocr_upgrades(c[1])
                            THEN [dev EXCEPT ![loc[t].dev].version =
                                                 SD_CARD_TYPE_SDHC]
                            ELSE dev
                  /\ pc' = Set(pc, t, "i_exit")
    /\ UNCHANGED <<busvars, smvars, boardvars, spi_state, mtx, baud>>

\* spi_mmc_resume_frequency(ctx); spi_unlock(ctx->spi); return ret
InitExit(t) ==
    /\ pc[t] = "i_exit" /\ ~Returning
    /\ baud' = "cfg"
    /\ spi_state' = spi_unlock(spi_state)
    /\ loc' = Set(loc, t, [loc[t] EXCEPT !.c8 = <<>>, !.resp = NoByte,
                                         !.nret = 0])
    /\ pc' = Set(pc, t, "p_fin")
    /\ UNCHANGED <<busvars, smvars, boardvars, gh, dev, mtx, wire>>

(* ------------------------------------------------------------------ *)
(* spi_mmc_sectors                                                      *)
(* ------------------------------------------------------------------ *)
RECURSIVE ext_bits_from(_, _, _, _)
ext_bits_from(data, lsb, size, i) ==
    IF i >= size THEN 0
    ELSE LET position == lsb + i
             byte     == 15 - (position \div 8)
             bit      == position % 8
         IN  Bit(data[byte + 1], bit) * Pow2(i)
               + ext_bits_from(data, lsb, size, i + 1)

\* an extraction that leaves out the bit at msb
ext_bits_short(data, msb, lsb) == ext_bits_from(data, lsb, msb - lsb, 0)

\* ext_bits(data, msb, lsb): size = 1 + msb - lsb bits starting at lsb
ext_bits(data, msb, lsb) == ext_bits_from(data, lsb, 1 + msb - lsb, 0)

\* (uint64_t)a * b / c: the product cannot wrap on 64 bits; it is divided
\* before it is multiplied out so that no intermediate value passes 2^31
muldiv_u64(a, b, c) == (a \div c) * b + ((a % c) * b) \div c

\* the block count spi_mmc_sectors computes from the 16 bytes of the CSD
csd_blocks(csd, blksize) ==
    LET csd_structure == ext_bits(csd, 126, 127)
    IN  CASE csd_structure = 0 ->
               LET c_size      == ext_bits(csd, 73, 62)
                   c_size_mult == ext_bits(csd, 49, 47)
                   read_bl_len == ext_bits(csd, 83, 80)
                   block_len   == Pow2(read_bl_len)
                   mult        == Pow2(c_size_mult + 2)
                   blocknr     == (c_size + 1) * mult
               IN  \* capacity = (uint64_t)blocknr * block_len;
                   \* blocks = capacity / (uint64_t)dev->blksize
                   muldiv_u64(blocknr, block_len, blksize)
          [] csd_structure = 1 ->
               LET hc_c_size == ext_bits(csd, 69, 48)
               IN  (hc_c_size + 1) * Pow2(10)
          [] OTHER -> 0

\* a CSD register with exactly the bits of the set `ones` set; bit 0 is the
\* lowest bit of the last byte
CsdWith(ones) ==
    [b \in 1..16 |->
        LET base == (16 - b) * 8
            RECURSIVE Sum(_)
            Sum(k) == IF k > 7 THEN 0
                      ELSE (IF base + k \in ones THEN Pow2(k) ELSE 0) + Sum(k + 1)
        IN  Sum(0)]

\* the positions of the one bits of an n-bit field of value v at lsb
FieldBits(v, lsb, n) == {lsb + k : k \in {j \in 0..(n - 1) : Bit(v, j) = 1}}

\* the register a card sends for the fields f: CSD_STRUCTURE at [127:126];
\* version 1.0 has READ_BL_LEN at [83:80], C_SIZE at [73:62] and
\* C_SIZE_MULT at [49:47]; version 2.0 has C_SIZE at [69:48]
CsdOf(f) ==
    CsdWith(FieldBits(f.structure, 126, 2) \cup
            (IF f.structure = 0
             THEN FieldBits(f.read_bl_len, 80, 4) \cup FieldBits(f.c_size, 62, 12)
                    \cup FieldBits(f.c_size_mult, 47, 3)
             ELSE FieldBits(f.c_size, 48, 22)))

\* the CSD registers of the cards of the model
CsdSet == {CsdOf(f) : f \in PlainCsds \cup WideCsds}

\* spi_lock(ctx->spi)
SectorsLock(t) ==
    /\ pc[t] = "s_lock" /\ ~Returning
    /\ spi_state' = spi_lock(spi_state)
    /\ gh' = Set(gh, t, [gh[t] EXCEPT !.locked = sem_acquire_ok(spi_state.sem)])
    /\ pc' = Set(pc, t, "s_cmd9")
    /\ UNCHANGED <<busvars, smvars, boardvars, loc, dev, mtx, baud, wire>>

\* ret = spi_mmc_send_cmd(ctx, cmd9, resp, false)
SectorsCmd9(t, C) ==
    /\ pc[t] = "s_cmd9" /\ ~Returning
    /\ wire' = Frame(t, loc[t].dev, MMC_CMD_SEND_CSD, U32(0))
    /\ \E xf \in C.xfer :    \* spi_mmc_send_cmd drops what its transfers return
         gh' = Set(gh, t, [gh[t] EXCEPT !.sent = TRUE, !.xfail = @ \/ xf])
    /\ \E r1 \in C.r1[MMC_CMD_SEND_CSD] :
         IF spi_mmc_send_cmd_ret(r1) # OK
         THEN pc' = Set(pc, t, "s_exit")      \* goto free_response
         ELSE pc' = Set(pc, t, "s_csd")
    /\ loc' = Set(loc, t, [loc[t] EXCEPT !.blocks = 0])
    /\ UNCHANGED <<busvars, smvars, boardvars, dev, spi_state, mtx, baud>>

\* ret = spi_mmc_transfer(ctx, &tx_dummy, csd, sizeof(csd)) and the decode
SectorsCsd(t, C) ==
    /\ pc[t] = "s_csd" /\ ~Returning
    /\ \E ok \in BOOLEAN, f \in C.csds :
         /\ loc' = Set(loc, t, [loc[t] EXCEPT !.blocks =
                      IF ok THEN csd_blocks(CsdOf(f), BLOCK_SIZE_SD) ELSE 0])
         /\ gh' = Set(gh, t, [gh[t] EXCEPT
                      !.csd = IF ok THEN <<f>> ELSE <<>>,
                      !.xfail = @ \/ ~ok])
    /\ pc' = Set(pc, t, "s_exit")
    /\ UNCHANGED <<busvars, smvars, boardvars, dev, spi_state, mtx, baud, wire>>

\* free_response: dev->num_blocks = blocks; spi_unlock(ctx->spi); return blocks
SectorsExit(t) ==
    /\ pc[t] = "s_exit" /\ ~Returning
    /\ dev' = [dev EXCEPT ![loc[t].dev].num_blocks = loc[t].blocks]
    /\ spi_state' = spi_unlock(spi_state)
    /\ pc' = Set(pc, t, "done")
    /\ UNCHANGED <<busvars, smvars, boardvars, loc, gh, mtx, baud, wire>>

(* ------------------------------------------------------------------ *)
(* spi_mmc_read_blocks                                                  *)
(* ------------------------------------------------------------------ *)
\* if (blk + blockCnt > dev->num_blocks): the sum is computed on uint32_t
\* and then compared with the uint64_t block count
read_out_of_bounds(blk, blockCnt, num_blocks) ==
    gt_u32(add_u32(blk, blockCnt), num_blocks)

read_cmd_index(len) ==
    IF len > 1 THEN MMC_CMD_READ_MULTIPLE_BLOCK ELSE MMC_CMD_READ_SINGLE_BLOCK

read_cmd_arg(version, blk, blksize) ==
    IF version = SD_CARD_TYPE_SDHC THEN blk ELSE mul_u32(blk, blksize)

\* the driver refuses to read on this state
read_not_ready(spi_initialized, dev_initialized) ==
    ~spi_initialized \/ ~dev_initialized

ReadCheck(t) ==
    /\ pc[t] = "r_check" /\ ~Returning
    /\ IF read_out_of_bounds(loc[t].blk, loc[t].len, dev[loc[t].dev].num_blocks)
       THEN /\ loc' = Set(loc, t, [loc[t] EXCEPT !.ret = EINVAL])
            /\ pc' = Set(pc, t, "done")
       ELSE /\ loc' = Set(loc, t, [loc[t] EXCEPT !.cnt = loc[t].len])
            /\ pc' = Set(pc, t, "r_lock")
    /\ UNCHANGED <<busvars, smvars, boardvars, gh, dev, spi_state, mtx, baud, wire>>

\* spi_lock(ctx->spi); if (!ctx->spi->state->initialized || !dev->initialized)
ReadLock(t) ==
    /\ pc[t] = "r_lock" /\ ~Returning
    /\ spi_state' = spi_lock(spi_state)
    /\ gh' = Set(gh, t, [gh[t] EXCEPT !.locked = sem_acquire_ok(spi_state.sem)])
    /\ IF read_not_ready(spi_state.initialized, dev[loc[t].dev].initialized)
       THEN /\ loc' = Set(loc, t, [loc[t] EXCEPT !.ret = EHOSTDOWN])
            /\ pc' = Set(pc, t, "r_exit")
       ELSE /\ loc' = loc
            /\ pc' = Set(pc, t, "r_cmd")
    /\ UNCHANGED <<busvars, smvars, boardvars, dev, mtx, baud, wire>>

\* ret = spi_mmc_send_cmd(ctx, read_cmd, &response, false)
ReadCmd(t, C) ==
    /\ pc[t] = "r_cmd" /\ ~Returning
    /\ wire' = Frame(t, loc[t].dev, read_cmd_index(loc[t].len),
                     read_cmd_arg(dev[loc[t].dev].version, loc[t].blk,
                                  BLOCK_SIZE_SD))
    /\ \E r1 \in C.r1[read_cmd_index(loc[t].len)], xf \in C.xfer :
         /\ gh' = Set(gh, t, [gh[t] EXCEPT !.sent = TRUE, !.rdr1 = r1,
                                           !.xfail = @ \/ xf])
         /\ IF spi_mmc_send_cmd_ret(r1) # OK
            THEN /\ loc' = Set(loc, t, [loc[t] EXCEPT !.ret = EIO])
                 /\ pc' = Set(pc, t, "r_exit")
            ELSE /\ loc' = Set(loc, t, [loc[t] EXCEPT !.ret = OK, !.rd = OK])
                 /\ pc' = Set(pc, t, IF loc[t].cnt > 0 THEN "r_data" ELSE "r_stop")
    /\ UNCHANGED <<busvars, smvars, boardvars, dev, spi_state, mtx, baud>>

\* what __spi_mmc_read_block returns for one data phase.  The results of
\* the two CRC16 byte transfers are overwritten and never tested; the CRC
\* is compared only when CONFIG_MMC_CRC_ENABLED is set.
read_block_ret(out, crc_enabled) ==
    CASE out = "no_token"  -> ETIMEDOUT     \* spi_mmc_wait_token
      [] out = "data_xfer" -> EIO           \* spi_mmc_transfer of the data
      [] out = "crc_bad"   -> IF crc_enabled THEN EBADMSG ELSE OK
      [] OTHER             -> OK            \* "ok", "crc_xfer"

\* the data bytes of the block were received into the caller's buffer
block_stored(out) == out \in {"ok", "crc_xfer", "crc_bad"}

\* if (__spi_mmc_read_block(dev, buf, dev->blksize)) rd_status = -EIO
read_status(block_ret) == IF block_ret # OK THEN EIO ELSE OK

\* one pass of while (blockCnt)
ReadBlock(t, C) ==
    /\ pc[t] = "r_data" /\ ~Returning
    /\ loc[t].cnt > 0
    /\ \E out \in C.block, en \in C.crc :
         LET r == read_block_ret(out, en)
             g == [gh[t] EXCEPT
                     !.bout = out, !.bret = r,
                     !.nbuf = IF block_stored(out) THEN @ + 1 ELSE @,
                     !.xfail = @ \/ out \in {"data_xfer", "crc_xfer"}]
         IN  /\ gh' = Set(gh, t, g)
             /\ IF read_status(r) = OK
                THEN /\ loc' = Set(loc, t, [loc[t] EXCEPT !.cnt = @ - 1])
                     /\ pc' = Set(pc, t, IF loc[t].cnt > 1 THEN "r_data"
                                                             ELSE "r_stop")
                ELSE /\ loc' = Set(loc, t, [loc[t] EXCEPT !.rd = read_status(r)])
                     /\ pc' = Set(pc, t, "r_stop")
    /\ UNCHANGED <<busvars, smvars, boardvars, dev, spi_state, mtx, baud, wire>>

\* a read that closes every transfer with CMD12, single-block ones too
read_stops_always(len) == len > 0

\* if (len > 1): the transfer is closed with CMD12
read_sends_stop(len) == len > 1

\* return rd_status ? rd_status : ret
read_result(rd_status, ret) == IF rd_status # OK THEN rd_status ELSE ret

\* if (len > 1) ret = spi_mmc_send_cmd(ctx, cmd12, &response, false)
ReadStop(t, C) ==
    /\ pc[t] = "r_stop" /\ ~Returning
    /\ IF read_sends_stop(loc[t].len)
       THEN /\ wire' = Frame(t, loc[t].dev, MMC_CMD_STOP_TRANSMISSION, U32(0))
            /\ \E r1 \in C.r1[MMC_CMD_STOP_TRANSMISSION], xf \in C.xfer :
                 /\ gh' = Set(gh, t, [gh[t] EXCEPT !.sent = TRUE, !.n12 = @ + 1,
                                         !.stop12 = r1, !.xfail = @ \/ xf])
                 /\ loc' = Set(loc, t, [loc[t] EXCEPT !.ret =
                              read_result(loc[t].rd, spi_mmc_send_cmd_ret(r1))])
       ELSE /\ wire' = wire
            /\ gh' = gh
            /\ loc' = Set(loc, t, [loc[t] EXCEPT !.ret =
                              read_result(loc[t].rd, loc[t].ret)])
    /\ pc' = Set(pc, t, "r_exit")
    /\ UNCHANGED <<busvars, smvars, boardvars, dev, spi_state, mtx, baud>>

\* spi_unlock(ctx->spi); return
ReadExit(t) ==
    /\ pc[t] = "r_exit" /\ ~Returning
    /\ spi_state' = spi_unlock(spi_state)
    /\ pc' = Set(pc, t, "done")
    /\ UNCHANGED <<busvars, smvars, boardvars, loc, gh, dev, mtx, baud, wire>>

(* ------------------------------------------------------------------ *)
\* the operation has returned to its caller
Return(t) ==
    /\ pc[t] = "done"
    /\ pc' = Set(pc, t, "idle")
    /\ loc' = Set(loc, t, NoLoc)
    /\ gh' = Set(gh, t, NoGh)
    /\ UNCHANGED <<busvars, smvars, boardvars, dev, spi_state, mtx, baud, wire>>

(* ------------------------------------------------------------------ *)
(* src/src/drivers/spi.c: the buses, their registry and the DMA path    *)
(* ------------------------------------------------------------------ *)
\* Two struct spi_config objects of the application, both with
\* use_dma = true and on the same DMA IRQ line (irqChannel1 is never
\* changed, so every bus gets DMA_IRQ_0).
Buses == {"b1", "b2"}
NoBus == "NULL"

\* list heads: &spi_drivers.list and the node member of every bus
HEAD  == "spi_drivers.list"
Nodes == {HEAD} \cup Buses
LIST_POISON1 == "LIST_POISON1"
LIST_POISON2 == "LIST_POISON2"

\* what list_for_each_entry leaves in cfg when the loop runs off the end:
\* container_of(&spi_drivers.list, struct spi_config, node)
HeadEntry == "entry of spi_drivers.list"

\* LIST_HEAD_INIT(name)
LIST_HEAD_INIT(l, name) == [l EXCEPT ![name] = [next |-> name, prev |-> name]]

\* __list_add(new, prev, next), statement by statement
list_add_between(l, new, prev, next) ==
    LET l1 == [l  EXCEPT ![next].prev = new]
        l2 == [l1 EXCEPT ![new].next = next]
        l3 == [l2 EXCEPT ![new].prev = prev]
    IN  [l3 EXCEPT ![prev].next = new]

\* list_add_tail(new, head): __list_add(new, head->prev, head)
list_add_tail(l, new, head) == list_add_between(l, new, l[head].prev, head)

\* list_del(entry): __list_del(entry->prev, entry->next) and the poisoning
list_del(l, entry) ==
    LET prev == l[entry].prev
        next == l[entry].next
        l1 == [l  EXCEPT ![next].prev = prev]
        l2 == [l1 EXCEPT ![prev].next = next]
    IN  [l2 EXCEPT ![entry] = [next |-> LIST_POISON1, prev |-> LIST_POISON2]]

\* the entries list_for_each visits from pos on, in order; the walk ends at
\* the head (or at a pointer that is no list head of the program)
RECURSIVE list_walk(_, _, _, _)
list_walk(l, head, pos, fuel) ==
    IF pos = head \/ pos \notin Nodes \/ fuel = 0 THEN <<>>
    ELSE <<pos>> \o list_walk(l, head, l[pos].next, fuel - 1)

list_entries(l, head) == list_walk(l, head, l[head].next, Cardinality(Nodes))

\* list_count_nodes(head)
list_count_nodes(l, head) == Len(list_entries(l, head))

\* spi_get_by_num(num): the loop counter i is not initialised; i0 is the
\* value it happens to start with.  The loop breaks at the entry where
\* i++ == num, and runs off the end otherwise.
spi_get_by_num(l, num, i0) ==
    LET es == list_entries(l, HEAD)
        k  == num - i0
    IN  IF k >= 0 /\ k < Len(es) THEN es[k + 1] ELSE HeadEntry

\* the start values of the uninitialised counter that are told apart
JunkInts == {0, 1}

NoBloc == [op |-> "none", bus |-> NoBus, ret |-> OK, cs |-> "high"]
\* enabled: irq_set_enabled(DMA_IRQ_num, true) was called
NoIsr  == [pc |-> "off", i |-> 0, cfg |-> NoBus, enabled |-> FALSE]

\* uaf: released bus state was read or written   dfree: it was released twice
\* wild: a pointer that is no object of its type was followed
\* posted[b]: the handler released the semaphore of b while a transfer on
\*            b was waiting for it
\* helped[t]: the wait of task t ended although the handler had not
\*            released the semaphore for this transfer
\* took[t]:   spi_lock() of task t took the permit the handler had released
\*            for a transfer that was still waiting for it
\* late:      the running handler served a bus whose semaphore had a permit
\* raised: the buses whose interrupt was pending when the running handler
\*            was entered    missed: a handler returned without having
\*            served a bus whose interrupt was pending at its entry
NoHist == [uaf |-> FALSE, dfree |-> FALSE, wild |-> FALSE,
           posted |-> [b \in Buses |-> FALSE],
           helped |-> [t \in Tasks |-> FALSE],
           took |-> [t \in Tasks |-> FALSE], late |-> FALSE,
           raised |-> {}, missed |-> FALSE]

BusInit ==
    /\ bus = [b \in Buses |-> [st |-> "null", initialized |-> FALSE, sem |-> 0,
                               busy |-> FALSE, ints |-> FALSE]]
    /\ lst = [n \in Nodes |-> IF n = HEAD THEN [next |-> HEAD, prev |-> HEAD]
                              ELSE [next |-> NoBus, prev |-> NoBus]]
    /\ lk  = [reg |-> NoTask, init |-> NoTask, deinit |-> NoTask]
    /\ bpc = [t \in Tasks |-> "idle"]
    /\ bloc = [t \in Tasks |-> NoBloc]
    /\ isr = NoIsr
    /\ hist = NoHist

BSet(f, k, r) == [f EXCEPT ![k] = r]

\* the program has left the behaviour the language defines; what it does
\* from there on is not followed
Broken == hist.uaf \/ hist.dfree \/ hist.wild

\* a handler that has been entered runs to its end before any task runs
\* again; a call that has returned hands back its result first
TaskRuns(t) == ~Broken /\ isr.pc = "off" /\ \A u \in Tasks : bpc[u] # "done"

(* Callers *)
CallSpiInit(t, B) ==
    /\ bpc[t] = "idle" /\ TaskRuns(t)
    /\ \E b \in B : bloc' = BSet(bloc, t, [NoBloc EXCEPT !.op = "init", !.bus = b])
    /\ bpc' = BSet(bpc, t, "a_enter")
    /\ UNCHANGED <<cardvars, smvars, boardvars, bus, lst, lk, isr, hist>>

\* aurora_spi_deinit(spi), also with spi == NULL; and spi_mmc_drv_deinit(),
\* which passes its struct spi_mmc_context as the struct spi_config
CtxObj == "ctx"

CallSpiDeinit(t, B) ==
    /\ bpc[t] = "idle" /\ TaskRuns(t)
    /\ \E b \in B \cup {NoBus, CtxObj} :
         bloc' = BSet(bloc, t, [NoBloc EXCEPT !.op = "deinit", !.bus = b])
    /\ bpc' = BSet(bpc, t, "d_enter")
    /\ UNCHANGED <<cardvars, smvars, boardvars, bus, lst, lk, isr, hist>>

\* a driver operation moves bytes over an initialised bus:
\* spi_lock(); spi_mmc_transfer(); spi_unlock()
CallTransfer(t, B) ==
    /\ bpc[t] = "idle" /\ TaskRuns(t)
    /\ \E b \in B :
         /\ bus[b].st = "live" /\ bus[b].initialized
         /\ bloc' = BSet(bloc, t, [NoBloc EXCEPT !.op = "transfer", !.bus = b])
    /\ bpc' = BSet(bpc, t, "x_lock")
    /\ UNCHANGED <<cardvars, smvars, boardvars, bus, lst, lk, isr, hist>>

BusReturn(t) ==
    /\ bpc[t] = "done" /\ isr.pc = "off" /\ ~Broken
    /\ bpc' = BSet(bpc, t, "idle")
    /\ bloc' = BSet(bloc, t, NoBloc)
    /\ hist' = [hist EXCEPT !.helped[t] = FALSE, !.took[t] = FALSE]
    /\ UNCHANGED <<cardvars, smvars, boardvars, bus, lst, lk, isr>>

(* aurora_spi_init *)
\* mutex_enter_blocking(&aurora_spi_init_mutex)
SpiInitEnter(t) ==
    /\ bpc[t] = "a_enter" /\ TaskRuns(t)
    /\ lk.init = NoTask
    /\ lk' = [lk EXCEPT !.init = t]
    /\ bpc' = BSet(bpc, t, "a_state")
    /\ UNCHANGED <<cardvars, smvars, boardvars, bus, lst, bloc, isr, hist>>

\* if (spi->state == NULL) spi->state = malloc(..);
\* if (spi->state->initialized) { mutex_exit(..); return true; }
\* malloc does not clear the memory and a released state is still pointed
\* to, so in both cases the flag read is whatever the memory holds.
SpiInitState(t) ==
    /\ bpc[t] = "a_state" /\ TaskRuns(t)
    /\ LET b == bloc[t].bus IN
       \E flag \in (IF bus[b].st = "live" THEN {bus[b].initialized} ELSE BOOLEAN) :
         /\ bus' = [bus EXCEPT ![b].st = IF @ = "null" THEN "live" ELSE @,
                               ![b].initialized = flag]
         /\ hist' = [hist EXCEPT !.uaf = @ \/ bus[b].st = "freed"]
         /\ IF flag
            THEN /\ lk' = [lk EXCEPT !.init = NoTask]
                 /\ bpc' = BSet(bpc, t, "done")
            ELSE /\ lk' = lk
                 /\ bpc' = BSet(bpc, t, "a_hw")
    /\ UNCHANGED <<cardvars, smvars, boardvars, lst, bloc, isr>>

\* spi_lock(spi); sem_init(&spi->state->sem, 0, 1); the pins, the DMA
\* channels and the handler are set up; irq_set_enabled(); spi_unlock(spi)
SpiInitHw(t) ==
    /\ bpc[t] = "a_hw" /\ TaskRuns(t)
    /\ LET b == bloc[t].bus IN
         /\ bus' = [bus EXCEPT ![b].sem = sem_release(0)]
         /\ hist' = [hist EXCEPT !.uaf = @ \/ bus[b].st = "freed"]
    /\ isr' = [isr EXCEPT !.enabled = TRUE]
    /\ bpc' = BSet(bpc, t, "a_reg")
    /\ UNCHANGED <<cardvars, smvars, boardvars, lst, lk, bloc>>

\* out: mutex_enter_blocking(&spi_drivers.mutex)
SpiInitReg(t) ==
    /\ bpc[t] = "a_reg" /\ TaskRuns(t)
    /\ lk.reg = NoTask
    /\ lk' = [lk EXCEPT !.reg = t]
    /\ bpc' = BSet(bpc, t, "a_add")
    /\ UNCHANGED <<cardvars, smvars, boardvars, bus, lst, bloc, isr, hist>>

\* spi->node = LIST_HEAD_INIT(spi->node);
\* list_add_tail(&spi_drivers.list, &spi->node): the registry head is the
\* `new` argument and the node of the bus is the `head` argument
SpiInitAdd(t) ==
    /\ bpc[t] = "a_add" /\ TaskRuns(t)
    /\ lst' = list_add_tail(LIST_HEAD_INIT(lst, bloc[t].bus), HEAD, bloc[t].bus)
    /\ bpc' = BSet(bpc, t, "a_fin")
    /\ UNCHANGED <<cardvars, smvars, boardvars, bus, lk, bloc, isr, hist>>

\* mutex_exit(&spi_drivers.mutex); spi->state->initialized = true;
\* mutex_exit(&aurora_spi_init_mutex); return true
SpiInitFinish(t) ==
    /\ bpc[t] = "a_fin" /\ TaskRuns(t)
    /\ lk' = [lk EXCEPT !.reg = NoTask, !.init = NoTask]
    /\ bus' = [bus EXCEPT ![bloc[t].bus].initialized = TRUE]
    /\ hist' = [hist EXCEPT !.uaf = @ \/ bus[bloc[t].bus].st = "freed"]
    /\ bpc' = BSet(bpc, t, "done")
    /\ UNCHANGED <<cardvars, smvars, boardvars, lst, bloc, isr>>

(* aurora_spi_deinit *)
\* mutex_enter_blocking(&aurora_spi_deinit_mutex)
SpiDeinitEnter(t) ==
    /\ bpc[t] = "d_enter" /\ TaskRuns(t)
    /\ lk.deinit = NoTask
    /\ lk' = [lk EXCEPT !.deinit = t]
    /\ bpc' = BSet(bpc, t, "d_check")
    /\ UNCHANGED <<cardvars, smvars, boardvars, bus, lst, bloc, isr, hist>>

\* if (!spi) return; else if (!spi->state->initialized) return;
\* both returns keep aurora_spi_deinit_mutex.  The flag of a released
\* state, and the memory behind a struct spi_mmc_context, are whatever the
\* heap holds; following a NULL or foreign state pointer may also fault.
SpiDeinitCheck(t) ==
    /\ bpc[t] = "d_check" /\ TaskRuns(t)
    /\ LET b == bloc[t].bus IN
         CASE b = NoBus ->
                /\ bpc' = BSet(bpc, t, "done")
                /\ UNCHANGED <<bus, hist>>
           [] b = CtxObj ->
                /\ hist' = [hist EXCEPT !.wild = TRUE]
                /\ bpc' \in {BSet(bpc, t, "done"), BSet(bpc, t, "fault")}
                /\ bus' = bus
           [] b \in Buses /\ bus[b].st = "null" ->
                /\ hist' = [hist EXCEPT !.wild = TRUE]
                /\ bpc' = BSet(bpc, t, "fault")
                /\ bus' = bus
           [] b \in Buses /\ bus[b].st = "live" ->
                /\ bpc' = BSet(bpc, t, IF bus[b].initialized THEN "d_lock"
                                                             ELSE "done")
                /\ UNCHANGED <<bus, hist>>
           [] b \in Buses /\ bus[b].st = "freed" ->
                /\ hist' = [hist EXCEPT !.uaf = TRUE]
                /\ \E flag \in BOOLEAN :
                     /\ bus' = [bus EXCEPT ![b].initialized = flag]
                     /\ bpc' = BSet(bpc, t, IF flag THEN "d_lock" ELSE "done")
    /\ UNCHANGED <<cardvars, smvars, boardvars, lst, lk, bloc, isr>>

\* spi_lock(spi); mutex_enter_blocking(&spi_drivers.mutex)
SpiDeinitLock(t) ==
    /\ bpc[t] = "d_lock" /\ TaskRuns(t)
    /\ lk.reg = NoTask
    /\ lk' = [lk EXCEPT !.reg = t]
    /\ bus' = [bus EXCEPT ![bloc[t].bus].sem = sem_after_acquire(@)]
    /\ bpc' = BSet(bpc, t, "d_del")
    /\ UNCHANGED <<cardvars, smvars, boardvars, lst, bloc, isr, hist>>

\* list_del(&spi->node); mutex_exit(&spi_drivers.mutex).  A node that was
\* deleted before holds the poison pointers, which list_del writes through.
SpiDeinitDel(t) ==
    /\ bpc[t] = "d_del" /\ TaskRuns(t)
    /\ LET n == bloc[t].bus IN
         IF lst[n].prev \in Nodes /\ lst[n].next \in Nodes
         THEN /\ lst' = list_del(lst, n)
              /\ lk' = [lk EXCEPT !.reg = NoTask]
              /\ bpc' = BSet(bpc, t, "d_free")
              /\ hist' = hist
         ELSE /\ hist' = [hist EXCEPT !.wild = TRUE]
              /\ bpc' = BSet(bpc, t, "fault")
              /\ UNCHANGED <<lst, lk>>
    /\ UNCHANGED <<cardvars, smvars, boardvars, bus, bloc, isr>>

\* spi->state->initialized = false; spi_unlock(spi); free(spi->state);
\* mutex_exit(&aurora_spi_deinit_mutex).  spi->state keeps pointing to the
\* released memory.
SpiDeinitFree(t) ==
    /\ bpc[t] = "d_free" /\ TaskRuns(t)
    /\ LET b == bloc[t].bus IN
         /\ bus' = [bus EXCEPT ![b].initialized = FALSE,
                               ![b].sem = sem_release(@), ![b].st = "freed"]
         /\ hist' = [hist EXCEPT !.uaf = @ \/ bus[b].st = "freed",
                                 !.dfree = @ \/ bus[b].st = "freed"]
    /\ lk' = [lk EXCEPT !.deinit = NoTask]
    /\ bpc' = BSet(bpc, t, "done")
    /\ UNCHANGED <<cardvars, smvars, boardvars, lst, bloc, isr>>

(* spi_lock, spi_mmc_transfer with spi_transfer_dma, spi_unlock *)
\* a bus state that is touched after its release
Touch(h, b) == [h EXCEPT !.uaf = @ \/ bus[b].st = "freed"]

\* spi_lock(ctx->spi): the result is dropped
XferLock(t) ==
    /\ bpc[t] = "x_lock" /\ TaskRuns(t)
    /\ bus' = [bus EXCEPT ![bloc[t].bus].sem = sem_after_acquire(@)]
    /\ hist' = [Touch(hist, bloc[t].bus) EXCEPT
                   !.took[t] = /\ hist.posted[bloc[t].bus]
                               /\ sem_acquire_ok(bus[bloc[t].bus].sem)
                               /\ \E u \in Tasks \ {t} :
                                      /\ bpc[u] = "x_wait"
                                      /\ bloc[u].bus = bloc[t].bus]
    /\ bpc' = BSet(bpc, t, "x_start")
    /\ UNCHANGED <<cardvars, smvars, boardvars, lst, lk, bloc, isr>>

\* cs_select(); spi_transfer_dma(): the channels are configured,
\* sem_reset(&spi->state->sem, 0), dma_start_channel_mask()
XferStart(t) ==
    /\ bpc[t] = "x_start" /\ TaskRuns(t)
    /\ LET b == bloc[t].bus IN
         /\ bus' = [bus EXCEPT ![b].sem = 0, ![b].busy = TRUE]
         /\ hist' = [Touch(hist, b) EXCEPT !.posted[b] = FALSE]
    /\ bloc' = BSet(bloc, t, [bloc[t] EXCEPT !.cs = "low"])
    /\ bpc' = BSet(bpc, t, "x_wait")
    /\ UNCHANGED <<cardvars, smvars, boardvars, lst, lk, isr>>

\* what spi_transfer_dma does after sem_acquire_timeout_ms(.., 1000)
\* returned rc: -ETIMEDOUT at once, or on to the wait for the channels
dma_wait_timed_out(rc) == ~rc

\* bool rc = sem_acquire_timeout_ms(&spi->state->sem, timeOut): a permit is
\* taken when there is one; with none the 1000 ms run out
XferWait(t) ==
    /\ bpc[t] = "x_wait" /\ TaskRuns(t)
    /\ LET b  == bloc[t].bus
           rc == sem_acquire_ok(bus[b].sem)
       IN
         /\ bus' = [bus EXCEPT ![b].sem = sem_after_acquire(@)]
         /\ hist' = [Touch(hist, b) EXCEPT
                        !.helped[t] = rc /\ ~hist.posted[b],
                        !.posted[b] = FALSE]
         /\ IF dma_wait_timed_out(rc)
            THEN /\ bloc' = BSet(bloc, t, [bloc[t] EXCEPT !.ret = ETIMEDOUT])
                 /\ bpc' = BSet(bpc, t, "x_cs")
            ELSE /\ bloc' = bloc
                 /\ bpc' = BSet(bpc, t, "x_finish")
    /\ UNCHANGED <<cardvars, smvars, boardvars, lst, lk, isr>>

\* dma_channel_wait_for_finish_blocking() on both channels; return 0
XferFinish(t) ==
    /\ bpc[t] = "x_finish" /\ TaskRuns(t)
    /\ ~bus[bloc[t].bus].busy
    /\ bloc' = BSet(bloc, t, [bloc[t] EXCEPT !.ret = OK])
    /\ bpc' = BSet(bpc, t, "x_cs")
    /\ UNCHANGED <<cardvars, smvars, boardvars, bus, lst, lk, isr, hist>>

\* spi_mmc_transfer: cs_deselect(ctx->cs_pin); return ret
XferDeselect(t) ==
    /\ bpc[t] = "x_cs" /\ TaskRuns(t)
    /\ bloc' = BSet(bloc, t, [bloc[t] EXCEPT !.cs = "high"])
    /\ bpc' = BSet(bpc, t, "x_unlock")
    /\ UNCHANGED <<cardvars, smvars, boardvars, bus, lst, lk, isr, hist>>

\* spi_unlock(ctx->spi)
XferUnlock(t) ==
    /\ bpc[t] = "x_unlock" /\ TaskRuns(t)
    /\ bus' = [bus EXCEPT ![bloc[t].bus].sem = sem_release(@)]
    /\ hist' = Touch(hist, bloc[t].bus)
    /\ bpc' = BSet(bpc, t, "done")
    /\ UNCHANGED <<cardvars, smvars, boardvars, lst, lk, bloc, isr>>

(* The DMA controller *)
\* the RX channel of bus b finishes its block and raises its interrupt
DmaComplete(b) ==
    /\ bus[b].busy /\ ~Broken
    /\ bus' = [bus EXCEPT ![b].busy = FALSE, ![b].ints = TRUE]
    /\ UNCHANGED <<cardvars, smvars, boardvars, lst, lk, bpc, bloc, isr, hist>>

(* in_spi_irq_handler *)
\* the interrupt line is asserted while a flag is pending in dma_hw->ints
IsrEnter ==
    /\ isr.pc = "off" /\ isr.enabled /\ ~Broken
    /\ \E b \in Buses : bus[b].ints
    /\ isr' = [isr EXCEPT !.pc = "num", !.i = 0, !.cfg = NoBus]
    /\ hist' = [hist EXCEPT !.raised = {b \in Buses : bus[b].ints}]
    /\ UNCHANGED <<cardvars, smvars, boardvars, bus, lst, lk, bpc, bloc>>

\* i < spi_get_num(): mutex_enter_blocking(&spi_drivers.mutex);
\* list_count_nodes(); mutex_exit()
IsrNum ==
    /\ isr.pc = "num" /\ ~Broken
    /\ lk.reg = NoTask
    /\ IF isr.i < list_count_nodes(lst, HEAD)
       THEN /\ isr' = [isr EXCEPT !.pc = "get"]
            /\ hist' = hist
       ELSE /\ isr' = [isr EXCEPT !.pc = "off", !.i = 0, !.cfg = NoBus]
            /\ hist' = [hist EXCEPT !.raised = {}, !.late = FALSE,
                                    !.missed = @ \/ hist.raised # {}]
    /\ UNCHANGED <<cardvars, smvars, boardvars, bus, lst, lk, bpc, bloc>>

\* struct spi_config *config = spi_get_by_num(i)
IsrGet ==
    /\ isr.pc = "get" /\ ~Broken
    /\ lk.reg = NoTask
    /\ \E i0 \in JunkInts :
         isr' = [isr EXCEPT !.pc = "body", !.cfg = spi_get_by_num(lst, isr.i, i0)]
    /\ UNCHANGED <<cardvars, smvars, boardvars, bus, lst, lk, bpc, bloc, hist>>

\* the body of the loop: state == NULL is skipped; when the RX channel of
\* the bus requests the interrupt the flag is cleared and the semaphore
\* released.  Behind the entry of the list head there is no spi_config:
\* what is read as its state may be NULL, or lead anywhere.
IsrBody ==
    /\ isr.pc = "body" /\ ~Broken
    /\ LET c == isr.cfg IN
         CASE c = HeadEntry ->
                /\ hist' = [hist EXCEPT !.wild = TRUE]
                /\ isr' \in {[isr EXCEPT !.pc = "num", !.i = @ + 1],
                             [isr EXCEPT !.pc = "fault"]}
                /\ bus' = bus
           [] c \in Buses /\ bus[c].st = "null" ->
                /\ isr' = [isr EXCEPT !.pc = "num", !.i = @ + 1]
                /\ UNCHANGED <<bus, hist>>
           [] c \in Buses /\ bus[c].st # "null" ->
                /\ isr' = [isr EXCEPT !.pc = "num", !.i = @ + 1]
                /\ IF bus[c].ints
                   THEN /\ bus' = [bus EXCEPT ![c].ints = FALSE,
                                              ![c].sem = sem_release(@)]
                        /\ hist' = [Touch(hist, c) EXCEPT
                                       !.posted[c] = TRUE,
                                       !.late = sem_acquire_ok(bus[c].sem),
                                       !.raised = @ \ {c}]
                   ELSE /\ bus' = bus
                        /\ hist' = Touch(hist, c)
    /\ UNCHANGED <<cardvars, smvars, boardvars, lst, lk, bpc, bloc>>

\* the steps of a task inside spi.c
BusStep(t) ==
    \/ SpiInitEnter(t) \/ SpiInitState(t) \/ SpiInitHw(t)
    \/ SpiInitReg(t) \/ SpiInitAdd(t) \/ SpiInitFinish(t)
    \/ SpiDeinitEnter(t) \/ SpiDeinitCheck(t) \/ SpiDeinitLock(t)
    \/ SpiDeinitDel(t) \/ SpiDeinitFree(t)
    \/ XferLock(t) \/ XferStart(t) \/ XferWait(t) \/ XferFinish(t)
    \/ XferDeselect(t) \/ XferUnlock(t)
    \/ BusReturn(t)

\* one task brings the buses b1 and b2 up and down and moves bytes over
\* them, with the DMA controller and the interrupt handler
NextBus ==
    \/ \E t \in {"t1"} :
        \/ CallSpiInit(t, Buses) \/ CallSpiDeinit(t, Buses)
        \/ CallTransfer(t, Buses)
        \/ BusStep(t)
    \/ \E b \in Buses : DmaComplete(b)
    \/ IsrEnter \/ IsrNum \/ IsrGet \/ IsrBody

\* tasks t1 and t2 share the bus b1
NextDma ==
    \/ \E t \in Tasks :
        \/ CallSpiInit(t, {"b1"}) \/ CallSpiDeinit(t, {"b1"})
        \/ CallTransfer(t, {"b1"})
        \/ BusStep(t)
    \/ \E b \in Buses : DmaComplete(b)
    \/ IsrEnter \/ IsrNum \/ IsrGet \/ IsrBody

(* ------------------------------------------------------------------ *)
(* src/lib/state/simple_state.c: the flight state machine               *)
(* ------------------------------------------------------------------ *)
\* the phases in flight order
SmOrder == <<"SM_IDLE", "SM_ARMED", "SM_BOOST", "SM_BURNOUT", "SM_APOGEE",
             "SM_MAIN", "SM_REDUNDAND", "SM_LANDED">>

\* the thresholds of the test suite
simple_state_cfg ==
    [T_AB |-> 30, T_H |-> 50, T_BB |-> 15, T_M |-> 200, T_L |-> 2,
     T_OA |-> 85, T_OI |-> 70,
     DT_AB |-> 100, DT_L |-> 50, TO_A |-> 200, TO_M |-> 150, TO_R |-> 250]

\* th before sm_init() and after sm_deinit(): (struct sm_thresholds){0}
ZeroTh == [f \in DOMAIN simple_state_cfg |-> 0]

\* sensor readings on both sides of every threshold
SmInputs ==
    [armed : {0, 1}, orientation : {69, 75, 85}, acceleration : {14, 30},
     velocity : {0, 3}, altitude : {49, 250}]

Timers     == {"dt_ab", "dt_l", "to_a", "to_m", "to_r"}
TimerFlags == {"dt_ab", "dt_l"}      \* TIMER_DT_AB, TIMER_DT_L
NoRunning  == [x \in TimerFlags |-> 0]

\* time passes in steps of Tick ms; the history counts up to MaxMs
Tick  == 50
MaxMs == 150

\* a k_timer: ms left until it expires, and the expiries not yet read
NoTimer == [left |-> 0, active |-> FALSE, status |-> 0]

\* an initialisation that keeps the expiries counted so far
k_timer_init_keeps_status(tm, fires) == [tm EXCEPT !.active = @ /\ fires]

\* k_timer_init() of a timer that may be running: the timeout node is
\* cleared while it is still queued, so the old timeout may or may not fire
k_timer_init(tm, fires) == [tm EXCEPT !.active = @ /\ fires, !.status = 0]

\* k_timer_start(tmr, K_MSEC(ms), K_NO_WAIT): one shot, the status restarts
k_timer_start(ms) == [left |-> ms, active |-> TRUE, status |-> 0]

\* k_timer_stop(): the status is kept
k_timer_stop(tm) == [tm EXCEPT !.active = FALSE, !.left = 0]

\* k_timer_status_get(): the number of expiries; reading it clears it
k_timer_status_get(tm) == tm.status
status_read(tm)        == [tm EXCEPT !.status = 0]

TIMER_EXPIRED(tm) == k_timer_status_get(tm) > 0

\* the timer after ms have passed
timer_after(tm, ms) ==
    IF tm.active /\ tm.left <= ms
    THEN [left |-> 0, active |-> FALSE, status |-> 1]
    ELSE IF tm.active THEN [tm EXCEPT !.left = @ - ms] ELSE tm

\* s is the record <current_state, timers, running_timers>
stop_timers(s) ==
    [s EXCEPT !.tm = [x \in Timers |-> k_timer_stop(s.tm[x])],
              !.run = NoRunning]

\* boost conditions that accept either reading alone
arm_to_boost_either(in, t) ==
    in.acceleration >= t.T_AB \/ in.altitude >= t.T_H

arm_to_boost_conditions_met(in, t) ==
    in.acceleration >= t.T_AB /\ in.altitude >= t.T_H

\* an update that takes no notice of in->armed
sm_disarm_ignored(s, in) == s

\* if (!in->armed) { stop_timers(); current_state = SM_IDLE; }
sm_disarm(s, in) ==
    IF in.armed = 0 THEN [stop_timers(s) EXCEPT !.state = "SM_IDLE"] ELSE s

\* arming that does not look at the orientation
sm_idle_any_orientation(s, in, t) ==
    IF in.armed # 0 THEN [s EXCEPT !.state = "SM_ARMED"] ELSE s

\* case SM_IDLE
sm_idle(s, in, t) ==
    IF in.armed # 0 /\ in.orientation >= t.T_OA
    THEN [s EXCEPT !.state = "SM_ARMED"] ELSE s

\* an orientation abort that leaves the confirmation running
sm_armed_abort_keeps_timer(s, in, t) ==
    IF in.orientation < t.T_OI
    THEN [s EXCEPT !.state = "SM_IDLE"]
    ELSE IF s.run["dt_ab"] = 1
    THEN IF ~arm_to_boost_conditions_met(in, t)
         THEN [s EXCEPT !.run["dt_ab"] = 0, !.tm["dt_ab"] = k_timer_stop(@)]
         ELSE IF TIMER_EXPIRED(s.tm["dt_ab"])
         THEN [s EXCEPT !.state = "SM_BOOST",
                        !.tm["dt_ab"] = k_timer_stop(status_read(@)),
                        !.run["dt_ab"] = 0]
         ELSE s
    ELSE IF ~arm_to_boost_conditions_met(in, t)
    THEN s
    ELSE [s EXCEPT !.tm["dt_ab"] = k_timer_start(t.DT_AB),
                   !.run["dt_ab"] = 1]

\* case SM_ARMED
sm_armed(s, in, t) ==
    IF in.orientation < t.T_OI
    THEN [s EXCEPT !.run["dt_ab"] = 0, !.tm["dt_ab"] = k_timer_stop(@),
                   !.state = "SM_IDLE"]
    ELSE IF s.run["dt_ab"] = 1
    THEN IF ~arm_to_boost_conditions_met(in, t)
         THEN [s EXCEPT !.run["dt_ab"] = 0, !.tm["dt_ab"] = k_timer_stop(@)]
         ELSE IF TIMER_EXPIRED(s.tm["dt_ab"])
         THEN [s EXCEPT !.state = "SM_BOOST",
                        !.tm["dt_ab"] = k_timer_stop(status_read(@)),
                        !.run["dt_ab"] = 0]
         ELSE s
    ELSE IF ~arm_to_boost_conditions_met(in, t)
    THEN s
    ELSE [s EXCEPT !.tm["dt_ab"] = k_timer_start(t.DT_AB),
                   !.run["dt_ab"] = 1]

\* case SM_BOOST
sm_boost(s, in, t) ==
    IF in.acceleration < t.T_BB THEN [s EXCEPT !.state = "SM_BURNOUT"] ELSE s

\* an apogee detection that opens the main parachute at once
sm_burnout_to_main(s, in, t, prev_alt) ==
    IF in.velocity <= 0 /\ in.altitude < prev_alt
    THEN [s EXCEPT !.state = "SM_MAIN"]
    ELSE s

\* case SM_BURNOUT
sm_burnout(s, in, t, prev_alt) ==
    IF in.velocity <= 0 /\ in.altitude < prev_alt
    THEN [s EXCEPT !.tm["to_a"] = k_timer_start(t.TO_A),
                   !.state = "SM_APOGEE"]
    ELSE s

\* case SM_APOGEE
sm_apogee(s, in, t) ==
    IF in.altitude < t.T_M
    THEN [s EXCEPT !.tm["to_a"] = k_timer_stop(@), !.state = "SM_MAIN"]
    ELSE IF TIMER_EXPIRED(s.tm["to_a"])
    THEN [s EXCEPT !.tm["to_a"] = k_timer_stop(status_read(@)),
                   !.tm["to_m"] = k_timer_start(t.TO_M),
                   !.state = "SM_IDLE"]
    ELSE s

\* case SM_MAIN
sm_main(s, t) ==
    IF TIMER_EXPIRED(s.tm["to_m"])
    THEN [s EXCEPT !.tm["to_m"] = k_timer_stop(status_read(@)),
                   !.tm["to_r"] = k_timer_start(t.TO_R),
                   !.state = "SM_REDUNDAND"]
    ELSE s

\* case SM_REDUNDAND, up to the label _check_timeout
sm_redundand_landing(s, in, t) ==
    IF s.run["dt_l"] = 1
    THEN IF in.velocity > t.T_L
         THEN [s EXCEPT !.run["dt_l"] = 0, !.tm["dt_l"] = k_timer_stop(@)]
         ELSE IF TIMER_EXPIRED(s.tm["dt_l"])
         THEN [s EXCEPT !.state = "SM_LANDED",
                        !.tm["dt_l"] = k_timer_stop(status_read(@)),
                        !.run["dt_l"] = 0]
         ELSE s
    ELSE IF in.velocity > t.T_L
    THEN s
    ELSE [s EXCEPT !.tm["dt_l"] = k_timer_start(t.DT_L), !.run["dt_l"] = 1]

\* _check_timeout: reached unless the landing was detected
sm_check_timeout(s) ==
    IF s.state = "SM_LANDED" THEN s
    ELSE IF TIMER_EXPIRED(s.tm["to_r"])
    THEN [s EXCEPT !.tm["dt_l"] = k_timer_stop(@), !.run["dt_l"] = 0,
                   !.tm["to_r"] = k_timer_stop(status_read(@)),
                   !.state = "SM_IDLE"]
    ELSE s

\* switch (current_state)
sm_switch(s, in, t, prev_alt) ==
    CASE s.state = "SM_IDLE"      -> sm_idle(s, in, t)
      [] s.state = "SM_ARMED"     -> sm_armed(s, in, t)
      [] s.state = "SM_BOOST"     -> sm_boost(s, in, t)
      [] s.state = "SM_BURNOUT"   -> sm_burnout(s, in, t, prev_alt)
      [] s.state = "SM_APOGEE"    -> sm_apogee(s, in, t)
      [] s.state = "SM_MAIN"      -> sm_main(s, t)
      [] s.state = "SM_REDUNDAND" ->
             sm_check_timeout(sm_redundand_landing(s, in, t))
      [] OTHER                    -> s          \* SM_LANDED

\* _sm_update(in, previous_altitude)
sm_update_body(s, in, t, prev_alt) ==
    sm_switch(sm_disarm(s, in), in, t, prev_alt)

\* a reset that leaves the state as it is
sm_reset_keeps_state(state) == state

\* current_state = SM_IDLE of sm_init() and sm_deinit()
sm_reset_state(state) == "SM_IDLE"

\* the statics of a machine that was started and initialised, and has
\* seen no update: the twin that a machine is compared with after a reset
\* (carried: the reset machine held the altitude of an earlier update)
FreshMachine == [on |-> TRUE, state |-> "SM_IDLE",
                 tm |-> [x \in Timers |-> NoTimer], run |-> NoRunning,
                 alt |-> 0, carried |-> FALSE]
NoTwin == [FreshMachine EXCEPT !.on = FALSE]

\* the twin after the same update and after the same time
twin_update(w, in, t) ==
    IF ~w.on THEN w
    ELSE LET n == sm_update_body([state |-> w.state, tm |-> w.tm,
                                  run |-> w.run], in, t, w.alt)
         IN  [on |-> TRUE, state |-> n.state, tm |-> n.tm, run |-> n.run,
              alt |-> in.altitude, carried |-> w.carried]
twin_elapse(w, ms) ==
    IF ~w.on THEN w
    ELSE [w EXCEPT !.tm = [x \in Timers |-> timer_after(w.tm[x], ms)]]

NoSmh == [op |-> "none", prev |-> "SM_IDLE", armed |-> 0, met |-> FALSE,
          ab_ms |-> 0, ab_held |-> FALSE, oa |-> FALSE, oi |-> FALSE,
          main_ms |-> 0, twin |-> NoTwin]

SmInit ==
    /\ current_state = "SM_IDLE"
    /\ th = ZeroTh
    /\ timer = [x \in Timers |-> NoTimer]
    /\ running_timers = NoRunning
    /\ previous_altitude = 0
    /\ smh = NoSmh

\* the body of sm_init(cfg)
sm_init_call ==
    /\ \E fires \in BOOLEAN :
         timer' = [x \in Timers |-> k_timer_init(timer[x], fires)]
    /\ th' = simple_state_cfg
    /\ running_timers' = NoRunning
    /\ current_state' = sm_reset_state(current_state)
    /\ smh' = [NoSmh EXCEPT !.op = "init", !.prev = current_state]
    /\ UNCHANGED <<cardvars, busvars, previous_altitude>>

\* sm_init(cfg)
SmInitCall == sm_init_call /\ UNCHANGED boardvars

\* sm_init(cfg) straight after sm_deinit(); from here on a fresh machine
\* is run beside this one
SmReinit ==
    /\ smh.op = "deinit"
    /\ timer' = [x \in Timers |-> k_timer_init(timer[x], FALSE)]
    /\ th' = simple_state_cfg
    /\ running_timers' = NoRunning
    /\ current_state' = sm_reset_state(current_state)
    /\ smh' = [NoSmh EXCEPT !.op = "init", !.prev = current_state,
                            !.twin = [FreshMachine EXCEPT
                                        !.carried = previous_altitude # 0]]
    /\ UNCHANGED <<cardvars, busvars, boardvars, previous_altitude>>

\* sm_deinit()
SmDeinit ==
    LET s == stop_timers([state |-> current_state, tm |-> timer,
                          run |-> running_timers])
    IN  /\ th' = ZeroTh
        /\ timer' = s.tm
        /\ running_timers' = s.run
        /\ current_state' = sm_reset_state(current_state)
        /\ smh' = [NoSmh EXCEPT !.op = "deinit", !.prev = current_state]
        /\ UNCHANGED <<cardvars, busvars, boardvars, previous_altitude>>

\* sm_update(in); the history notes whether the boost conditions held on
\* every update since the one that started dt_ab, how the orientation
\* compared with T_OA (in SM_IDLE) and T_OI (in SM_ARMED), and the time
\* spent in SM_MAIN
sm_update(in) ==
        LET s   == [state |-> current_state, tm |-> timer,
                    run |-> running_timers]
            n   == sm_update_body(s, in, th, previous_altitude)
            met == in.acceleration >= th.T_AB /\ in.altitude >= th.T_H
            started == n.run["dt_ab"] = 1 /\ s.run["dt_ab"] = 0
            watched == \/ n.run["dt_ab"] = 1
                       \/ s.state = "SM_ARMED" /\ n.state = "SM_BOOST"
        IN  /\ current_state' = n.state
            /\ timer' = n.tm
            /\ running_timers' = n.run
            /\ previous_altitude' = in.altitude
            /\ smh' = [op |-> "update", prev |-> current_state,
                       armed |-> in.armed,
                       met |-> s.state = "SM_ARMED" /\ in.armed # 0 /\ met,
                       ab_ms |-> IF started \/ ~watched THEN 0 ELSE smh.ab_ms,
                       ab_held |-> IF started THEN TRUE
                                   ELSE /\ watched /\ smh.ab_held /\ met
                                        /\ s.state = "SM_ARMED"
                                        /\ n.state \in {"SM_ARMED", "SM_BOOST"},
                       oa |-> s.state = "SM_IDLE"
                              /\ in.orientation >= th.T_OA,
                       oi |-> s.state = "SM_ARMED"
                              /\ in.orientation < th.T_OI,
                       main_ms |-> IF s.state = "SM_MAIN" THEN smh.main_ms
                                   ELSE 0,
                       twin |-> twin_update(smh.twin, in, th)]
            /\ UNCHANGED <<cardvars, busvars, th>>

\* a caller passes any readings
SmUpdate == \E in \in SmInputs : sm_update(in) /\ UNCHANGED boardvars

\* Tick ms pass
elapse_tick ==
    /\ timer' = [x \in Timers |-> timer_after(timer[x], Tick)]
    /\ smh' = [smh EXCEPT !.ab_ms = IF running_timers["dt_ab"] = 0 THEN @
                                    ELSE IF @ + Tick > MaxMs THEN MaxMs
                                    ELSE @ + Tick,
                          !.main_ms = IF current_state # "SM_MAIN" THEN @
                                      ELSE IF @ + Tick > MaxMs THEN MaxMs
                                      ELSE @ + Tick,
                          !.twin = twin_elapse(@, Tick)]
    /\ UNCHANGED <<cardvars, busvars, current_state, th, running_timers,
                   previous_altitude>>

\* Tick ms pass between two calls
SmElapse == elapse_tick /\ UNCHANGED boardvars

(* ------------------------------------------------------------------ *)
(* src/sensor_board/src/main.c: the state-machine task.  The thresholds *)
(* come from the build configuration; the ones of the test suite stand  *)
(* in for them.                                                         *)
(* ------------------------------------------------------------------ *)
NoBoard == [pc |-> "start", slept |-> 0, orientation |-> 0,
            acceleration |-> 0, velocity |-> 0, altitude |-> 0]

BoardInit == board = NoBoard

\* the task sleeps K_MSEC(100) between two updates
TASK_PERIOD_MS == 100
SleepTicks     == IF TASK_PERIOD_MS \div Tick > 1 THEN TASK_PERIOD_MS \div Tick
                  ELSE 1

\* inputs = (struct sm_inputs){ .orientation = ..., ... } in the loop: a
\* member that is not named is zero.  (The initialiser before the loop
\* names .armed = 1, but that value is replaced before the first update.)
task_inputs(b) ==
    [armed |-> 0, orientation |-> b.orientation,
     acceleration |-> b.acceleration, velocity |-> b.velocity,
     altitude |-> b.altitude]

\* imu_poll(imu0, &orientation, &acceleration) in imu_task
ImuPoll ==
    /\ \E o \in {69, 75, 85}, a \in {14, 30} :
         board' = [board EXCEPT !.orientation = o, !.acceleration = a]
    /\ UNCHANGED <<cardvars, busvars, smvars>>

\* altitude = baro_altitude(...) in baro_task
BaroMeasure ==
    /\ \E h \in {49, 250} : board' = [board EXCEPT !.altitude = h]
    /\ UNCHANGED <<cardvars, busvars, smvars>>

\* sm_init(&state_cfg); sm_active = true
TaskStart ==
    /\ board.pc = "start"
    /\ sm_init_call
    /\ board' = [board EXCEPT !.pc = "update"]

\* inputs = ...; sm_update(&inputs)
TaskUpdate ==
    /\ board.pc = "update"
    /\ sm_update(task_inputs(board))
    /\ board' = [board EXCEPT !.pc = "sleep", !.slept = 0]

\* k_sleep(K_MSEC(100))
TaskSleep ==
    /\ board.pc = "sleep"
    /\ elapse_tick
    /\ board' = IF board.slept + 1 = SleepTicks
                THEN [board EXCEPT !.pc = "update", !.slept = 0]
                ELSE [board EXCEPT !.slept = @ + 1]

NextBoard == ImuPoll \/ BaroMeasure \/ TaskStart \/ TaskUpdate \/ TaskSleep

NextSm == SmInitCall \/ SmDeinit \/ SmUpdate \/ SmElapse

\* the same, with the machines that went through a reset watched
NextReset == NextSm \/ SmReinit

(* ------------------------------------------------------------------ *)
(* Specifications                                                       *)
(* ------------------------------------------------------------------ *)
Init == CardInit /\ BusInit /\ SmInit /\ BoardInit

\* tasks t1 and t2 on a card that answers within the protocol
Next ==
    \E t \in Tasks :
        \/ CallProbe(t, OneDev) \/ CallSectors(t, OneDev)
        \/ CallRead(t, PlainCard, OneDev)
        \/ ProbeEnter(t) \/ ProbeSkip(t) \/ ProbeFinish(t)
        \/ InitLock(t) \/ InitSettle(t) \/ SendReset(t, PlainCard)
        \/ VoltageCmd8(t, PlainCard) \/ Acmd55(t, PlainCard)
        \/ AcmdWaitReady(t, PlainCard) \/ Acmd41(t, PlainCard)
        \/ ReadOcr(t, PlainCard) \/ InitExit(t)
        \/ SectorsLock(t) \/ SectorsCmd9(t, PlainCard) \/ SectorsCsd(t, PlainCard)
        \/ SectorsExit(t)
        \/ ReadCheck(t) \/ ReadLock(t) \/ ReadCmd(t, PlainCard)
        \/ ReadBlock(t, PlainCard) \/ ReadStop(t, PlainCard) \/ ReadExit(t)
        \/ Return(t)

Spec == Init /\ [][Next]_vars

\* one task on a card that may answer anything
NextCard ==
    \E t \in {"t1"} :
        \/ CallProbe(t, OneDev) \/ CallSectors(t, OneDev)
        \/ CallRead(t, AnyCard, OneDev)
        \/ ProbeEnter(t) \/ ProbeSkip(t) \/ ProbeFinish(t)
        \/ InitLock(t) \/ InitSettle(t) \/ SendReset(t, AnyCard)
        \/ VoltageCmd8(t, AnyCard) \/ Acmd55(t, AnyCard)
        \/ AcmdWaitReady(t, AnyCard) \/ Acmd41(t, AnyCard)
        \/ ReadOcr(t, AnyCard) \/ InitExit(t)
        \/ SectorsLock(t) \/ SectorsCmd9(t, AnyCard) \/ SectorsCsd(t, AnyCard)
        \/ SectorsExit(t)
        \/ ReadCheck(t) \/ ReadLock(t) \/ ReadCmd(t, AnyCard)
        \/ ReadBlock(t, AnyCard) \/ ReadStop(t, AnyCard) \/ ReadExit(t)
        \/ Return(t)

SpecCard == Init /\ [][NextCard]_vars

\* task t1 uses card d1 while task t2 brings up card d2 on the same bus
NextShared ==
    \/ CallProbe("t1", {"d1"}) \/ CallSectors("t1", {"d1"})
    \/ CallRead("t1", PlainCard, {"d1"})
    \/ CallProbe("t2", {"d2"})
    \/ \E t \in Tasks :
        \/ ProbeEnter(t) \/ ProbeSkip(t) \/ ProbeFinish(t)
        \/ InitLock(t) \/ InitSettle(t) \/ SendReset(t, PlainCard)
        \/ VoltageCmd8(t, PlainCard) \/ Acmd55(t, PlainCard)
        \/ AcmdWaitReady(t, PlainCard) \/ Acmd41(t, PlainCard)
        \/ ReadOcr(t, PlainCard) \/ InitExit(t)
        \/ SectorsLock(t) \/ SectorsCmd9(t, PlainCard) \/ SectorsCsd(t, PlainCard)
        \/ SectorsExit(t)
        \/ ReadCheck(t) \/ ReadLock(t) \/ ReadCmd(t, PlainCard)
        \/ ReadBlock(t, PlainCard) \/ ReadStop(t, PlainCard) \/ ReadExit(t)
        \/ Return(t)

SpecShared == Init /\ [][NextShared]_vars

\* the flight state machine and the passing of time
SpecSm == Init /\ [][NextSm]_vars

\* the state machine with a twin started at every reset
SpecReset == Init /\ [][NextReset]_vars

\* the sensor board: the state-machine task beside the sensor tasks
SpecBoard == Init /\ [][NextBoard]_vars

SpecBus == Init /\ [][NextBus]_vars

SpecDma == Init /\ [][NextDma]_vars

(* ------------------------------------------------------------------ *)
(* Properties                                                           *)
(* ------------------------------------------------------------------ *)
\* the places of a task between its spi_lock() and its spi_unlock()
InBus == {"i_settle", "i_reset", "v_cmd8", "v_a55", "v_ready", "v_a41",
          "v_cmd58", "i_exit", "s_cmd9", "s_csd", "s_exit",
          "r_cmd", "r_data", "r_stop", "r_exit"}

\* a probe() that ran spi_mmc_init has returned to task t
ProbeRan(t) == pc[t] = "done" /\ loc[t].op = "probe" /\ gh[t].ran

\* a valid R1 with the idle (busy) bit set
R1Busy(b) == RespValid(b) /\ Bit(b, 0) = 1

\* C1: operations on the same bus are mutually exclusive: at most one task
\* at a time is between its spi_lock() and its spi_unlock().
C1_BusMutualExclusion ==
    \A t, u \in Tasks : (pc[t] \in InBus /\ pc[u] \in InBus) => t = u

\* two tasks are inside their locked sections at once, one of them in
\* spi_mmc_init and the other about to send CMD9
C1_TwoTasksOnBus ==
    \E t, u \in Tasks :
        /\ t # u
        /\ pc[t] \in {"i_reset", "v_cmd8", "v_a55", "v_a41"}
        /\ pc[u] = "s_cmd9" /\ ~gh[u].locked

\* C2: between the CMD18 frame of a multi-block read and its closing CMD12
\* the reader holds the lock and no command of another caller appears on
\* the bus: the last frame on the bus is still the reader's CMD18.
C2_MultiBlockReadAtomic ==
    \A t \in Tasks :
        (loc[t].op = "read" /\ loc[t].len > 1 /\ pc[t] \in {"r_data", "r_stop"})
            => /\ gh[t].locked
               /\ wire.task = t
               /\ wire.cmd = MMC_CMD_READ_MULTIPLE_BLOCK

\* a frame of another task went out between the reader's CMD18 and CMD12
C2_ForeignFrameInRead ==
    \E t \in Tasks :
        /\ loc[t].op = "read" /\ loc[t].len > 1 /\ pc[t] = "r_stop"
        /\ gh[t].locked
        /\ wire.task \in Tasks \ {t}

\* C3: a probe() called on a device that an earlier probe() has initialized
\* returns success, has sent no frame on the bus, and leaves the card type
\* and the initialized flag as they were.
C3_ProbeIdempotent ==
    \A t \in Tasks :
        (pc[t] = "done" /\ loc[t].op = "probe" /\ gh[t].entryInit)
            => /\ loc[t].ret = OK
               /\ ~gh[t].sent /\ ~gh[t].ran
               /\ dev[loc[t].dev].version = gh[t].entryVer
               /\ dev[loc[t].dev].initialized

\* a second probe() of an initialized SDHC card has returned
C3_SecondProbeReturned ==
    \E t \in Tasks :
        /\ pc[t] = "done" /\ loc[t].op = "probe" /\ gh[t].entryInit
        /\ gh[t].entryVer = SD_CARD_TYPE_SDHC
        /\ wire.cmd = MMC_CMD_SPI_READ_OCR

\* a step of the bring-up run by task t failed
BringUpStepFailed(t) ==
    \/ ~gh[t].idle                                   \* CMD0 never gave idle
    \/ gh[t].vc = "none"                             \* CMD8 not recognised
    \/ gh[t].aborted                                 \* CMD55 or wait ready
    \/ (gh[t].n41 > 0 /\ ~RespValid(gh[t].last41))   \* ACMD41 error
    \/ gh[t].bad58                                   \* CMD58 failed

\* C4: when a step of bring-up fails, probe() returns a non-zero error and
\* dev->initialized stays false.
C4_FailedStepAborts ==
    \A t \in Tasks :
        (ProbeRan(t) /\ BringUpStepFailed(t))
            => loc[t].ret # OK /\ ~dev[loc[t].dev].initialized

\* probe() returned success and set initialized although no CMD0 was
\* answered with the idle bit
C4_ReadyWithoutReset ==
    \E t \in Tasks :
        /\ ProbeRan(t) /\ ~gh[t].idle /\ gh[t].rst = ETIMEDOUT
        /\ loc[t].ret = OK /\ dev[loc[t].dev].initialized

\* C5: no CMD9, CMD17 or CMD18 frame is sent for a device whose initialized
\* flag is false.
C5_BringUpGates ==
    wire.cmd \in {MMC_CMD_SEND_CSD, MMC_CMD_READ_SINGLE_BLOCK,
                  MMC_CMD_READ_MULTIPLE_BLOCK} => wire.init

\* n_sectors() has sent CMD9 to a device that was never probed
C5_Cmd9BeforeProbe ==
    \E t \in Tasks :
        /\ loc[t].op = "sectors" /\ pc[t] = "s_csd" /\ ~gh[t].entryInit
        /\ wire.cmd = MMC_CMD_SEND_CSD /\ ~wire.init
        /\ dev[loc[t].dev].version = SD_CARD_TYPE_UNKNOWN

\* C6: when every ACMD41 of a bring-up was answered busy, ACMD41 was sent
\* exactly ten times and probe() returns Timeout.
C6_BusyPollTimesOut ==
    \A t \in Tasks :
        (ProbeRan(t) /\ gh[t].n41 > 0 /\ gh[t].busy41 = gh[t].n41)
            => gh[t].n41 = ACMD41_MAX_RETRIES /\ loc[t].ret = ETIMEDOUT

\* probe() returned after a single ACMD41 that was answered busy
C6_OneBusyPoll ==
    \E t \in Tasks :
        /\ ProbeRan(t) /\ gh[t].n41 = 1 /\ gh[t].busy41 = 1
        /\ gh[t].vc = SD_CARD_TYPE_SD1 /\ loc[t].ret = OK

\* C7: probe() returns success, and initialized becomes true, only when the
\* last ACMD41 answer of that bring-up had its busy (idle) bit clear.
C7_ReadyOnlyWhenNotBusy ==
    \A t \in Tasks :
        (ProbeRan(t) /\ (loc[t].ret = OK \/ dev[loc[t].dev].initialized))
            => gh[t].n41 > 0 /\ RespValid(gh[t].last41)
                             /\ ~R1Busy(gh[t].last41)

\* the device is initialized by a bring-up whose last ACMD41 answer was busy
C7_ReadyWhileBusy ==
    \E t \in Tasks :
        /\ ProbeRan(t) /\ dev[loc[t].dev].initialized
        /\ R1Busy(gh[t].last41) /\ gh[t].vc = SD_CARD_TYPE_SD2

\* C8: the reset loop sends CMD0 at most ten times and stops at the first
\* R1 with the idle bit; a bring-up in which no CMD0 answer had the idle bit
\* ends with Timeout.
C8_ResetBoundedThenTimeout ==
    \A t \in Tasks :
        /\ pc[t] = "i_reset" => (loc[t].i < RESET_RETRIES /\ ~gh[t].idle)
        /\ (ProbeRan(t) /\ ~gh[t].idle) => loc[t].ret = ETIMEDOUT

\* the reset loop sends CMD0 again after an R1 with the idle bit set
C8_ResetGoesOnWhenIdle ==
    \E t \in Tasks :
        pc[t] = "i_reset" /\ gh[t].idle /\ loc[t].resp = 5 /\ loc[t].i > 0

\* C9: after CMD8 the card is SD1 exactly when R1 has the illegal-command
\* bit, SD2 exactly when the command was accepted and the last response byte
\* is 0xAA; on any other answer bring-up fails with Io and the card type is
\* left alone.
C9_VoltageClassification ==
    \A t \in Tasks :
        (gh[t].vc # SD_CARD_TYPE_UNKNOWN /\ Len(loc[t].c8) = 5)
            => LET r1       == gh[t].c8r1
                   echo     == loc[t].c8[5]
                   illegal  == RespValid(r1)
                                 /\ BitAnd(r1, R1_SPI_ILLEGAL_COMMAND) # 0
                   accepted == RespValid(r1)
                                 /\ BitAnd(r1, R1_SPI_ILLEGAL_COMMAND) = 0
               IN  /\ gh[t].vc = SD_CARD_TYPE_SD1 <=> illegal
                   /\ gh[t].vc = SD_CARD_TYPE_SD2
                        <=> (accepted /\ echo = CMD8_ECHO_MASK)
                   /\ gh[t].vc = "none"
                        => /\ loc[t].ret = EIO
                           /\ dev[loc[t].dev].version = gh[t].entryVer

\* a card that echoes 0x02 to CMD8 is classified SD2
C9_WrongEchoIsSD2 ==
    \E t \in Tasks :
        /\ pc[t] = "v_a55" /\ gh[t].vc = SD_CARD_TYPE_SD2
        /\ gh[t].c8r1 = R1_SPI_IDLE /\ loc[t].c8[5] = 2

\* C10: after a successful bring-up the card is SDHC exactly when it was
\* classified SD2 at voltage check and the OCR read by CMD58 has the
\* capacity bit set; an SD1 card is never sent CMD58 and never becomes SDHC.
C10_SdhcIffCapacityBit ==
    \A t \in Tasks :
        (ProbeRan(t) /\ loc[t].ret = OK)
            => /\ dev[loc[t].dev].version = SD_CARD_TYPE_SDHC
                    <=> (gh[t].vc = SD_CARD_TYPE_SD2 /\ gh[t].ccs)
               /\ gh[t].vc = SD_CARD_TYPE_SD1
                    => /\ gh[t].n58 = 0
                       /\ dev[loc[t].dev].version # SD_CARD_TYPE_SDHC

\* an SD2 card whose OCR has the capacity bit set stays SD2
C10_CapacityBitIgnored ==
    \E t \in Tasks :
        /\ ProbeRan(t) /\ loc[t].ret = OK /\ gh[t].n58 = 1 /\ gh[t].ccs
        /\ dev[loc[t].dev].version = SD_CARD_TYPE_SD2

\* the mathematical values b + n and b * 512 of a uint32_t b, as halves
\* whose upper half is not cut to 16 bits
MathSum(b, n) == [hi |-> b.hi + (b.lo + n) \div HALF, lo |-> (b.lo + n) % HALF]
ByteAddress(b) ==
    [hi |-> b.hi * BLOCK_SIZE_SD + (b.lo * BLOCK_SIZE_SD) \div HALF,
     lo |-> (b.lo * BLOCK_SIZE_SD) % HALF]

\* task t is in a blk_read() whose read command is the last frame on the bus
ReadCmdOnWire(t) ==
    /\ loc[t].op = "read" /\ pc[t] \in {"r_data", "r_stop", "r_exit"}
    /\ wire.task = t
    /\ wire.cmd \in {MMC_CMD_READ_SINGLE_BLOCK, MMC_CMD_READ_MULTIPLE_BLOCK}

\* C11: for an in-range start block b the argument of CMD17/CMD18 is b for
\* an SDHC card and the byte address b * 512, not wrapped to 32 bits, for
\* an SD1 or SD2 card.
C11_AddressTranslation ==
    \A t \in Tasks :
        (/\ ReadCmdOnWire(t)
         /\ ~gt_u32(MathSum(loc[t].blk, loc[t].len), dev[loc[t].dev].num_blocks))
            => wire.arg = IF dev[loc[t].dev].version = SD_CARD_TYPE_SDHC
                          THEN loc[t].blk
                          ELSE ByteAddress(loc[t].blk)

\* block 2^23 of an SD2 card with 2^24 blocks is read with argument 0
C11_AddressWraps ==
    \E t \in Tasks :
        /\ ReadCmdOnWire(t) /\ pc[t] = "r_data"
        /\ dev[loc[t].dev].version = SD_CARD_TYPE_SD2
        /\ loc[t].blk = [hi |-> 128, lo |-> 0] /\ wire.arg = U32(0)

\* a blk_read() has returned to task t
ReadDone(t) == pc[t] = "done" /\ loc[t].op = "read"

\* C12: blk_read() returns -EINVAL and sends no command whenever the
\* mathematical sum start block + count exceeds the cached block count.
C12_RangeCheckNoWrap ==
    \A t \in Tasks :
        (/\ ReadDone(t)
         /\ gt_u32(MathSum(loc[t].blk, loc[t].len), dev[loc[t].dev].num_blocks))
            => loc[t].ret = EINVAL /\ ~gh[t].sent

\* a read of one block at 0xffffffff has sent its command and returned 0
C12_WrappedSumAccepted ==
    \E t \in Tasks :
        /\ ReadDone(t) /\ loc[t].blk = [hi |-> HALF - 1, lo |-> HALF - 1]
        /\ loc[t].len = 1 /\ gh[t].sent /\ loc[t].ret = OK

\* C13: blk_read() on a device whose initialized flag is false returns
\* -EHOSTDOWN, whatever the start block, the count and the cached block
\* count are, and the bus lock is free on return.
C13_NotReadyFirst ==
    \A t \in Tasks :
        (ReadDone(t) /\ ~gh[t].entryInit)
            => loc[t].ret = EHOSTDOWN /\ spi_state.sem = SEM_INITIAL

\* a read of block 0 of a device that was never probed returns -EINVAL
C13_InvalidBeforeNotReady ==
    \E t \in Tasks :
        /\ ReadDone(t) /\ ~gh[t].entryInit /\ ~dev[loc[t].dev].initialized
        /\ loc[t].blk = U32(0) /\ loc[t].len = 1 /\ loc[t].ret = EINVAL

\* C14: when CMD17/CMD18 is answered with a valid R1 that is not zero, the
\* read never enters the data phase: no token wait, nothing stored in the
\* caller's buffer, and blk_read() returns -EIO.
C14_R1ErrorAbortsRead ==
    \A t \in Tasks :
        (loc[t].op = "read" /\ RespValid(gh[t].rdr1) /\ gh[t].rdr1 # 0)
            => /\ pc[t] # "r_data"
               /\ gh[t].bout = "none" /\ gh[t].nbuf = 0
               /\ pc[t] = "done" => loc[t].ret = EIO

\* a read whose CMD17 was answered 0x05 (illegal command) stored a block
\* and returned 0
C14_DataAfterR1Error ==
    \E t \in Tasks :
        /\ ReadDone(t) /\ gh[t].rdr1 = 5 /\ loc[t].len = 1
        /\ gh[t].nbuf = 1 /\ loc[t].ret = OK

\* C15: when __spi_mmc_read_block finds the CRC16 of a block wrong (CRC
\* checking enabled), blk_read() returns the CRC error -EBADMSG, which is
\* neither -EIO nor -ETIMEDOUT, and the block stays in the caller's buffer.
C15_CrcErrorSurfaces ==
    \A t \in Tasks :
        (ReadDone(t) /\ gh[t].bout = "crc_bad" /\ gh[t].bret = EBADMSG)
            => loc[t].ret = EBADMSG /\ gh[t].nbuf > 0

\* a read whose only block had a wrong CRC16 returned -EIO
C15_CrcErrorAsIo ==
    \E t \in Tasks :
        /\ ReadDone(t) /\ loc[t].len = 1 /\ gh[t].bout = "crc_bad"
        /\ gh[t].bret = EBADMSG /\ gh[t].nbuf = 1 /\ loc[t].ret = EIO

\* C16: when the data start token does not arrive before the deadline of
\* spi_mmc_wait_token, the wait ends and blk_read() returns -ETIMEDOUT.
C16_TokenTimeout ==
    \A t \in Tasks :
        (ReadDone(t) /\ gh[t].bout = "no_token")
            => gh[t].bret = ETIMEDOUT /\ loc[t].ret = ETIMEDOUT

\* a read whose token wait timed out returned -EIO
C16_TimeoutAsIo ==
    \E t \in Tasks :
        /\ ReadDone(t) /\ gh[t].bout = "no_token" /\ gh[t].bret = ETIMEDOUT
        /\ gh[t].nbuf = 0 /\ loc[t].ret = EIO

\* C17: a multi-block read in which every block was received returns
\* success even when the closing CMD12 got no valid response.
C17_StopFailureKeepsSuccess ==
    \A t \in Tasks :
        (/\ ReadDone(t) /\ loc[t].len > 1
         /\ loc[t].rd = OK /\ gh[t].nbuf = loc[t].len
         /\ gh[t].n12 = 1 /\ ~RespValid(gh[t].stop12))
            => loc[t].ret = OK

\* both blocks of a read were received, CMD12 was not answered, and the
\* read returned -EIO
C17_StopFailureIsError ==
    \E t \in Tasks :
        /\ ReadDone(t) /\ loc[t].len = 2 /\ gh[t].nbuf = 2 /\ gh[t].bret = OK
        /\ gh[t].stop12 = NoByte /\ gh[t].n12 = 1 /\ loc[t].ret = EIO

\* C18: in a blk_read() whose read command was accepted, CMD12 is sent
\* exactly once when count > 1, after the last data phase and also when a
\* block failed, and never when count is 0 or 1.
C18_StopSentOnce ==
    \A t \in Tasks :
        loc[t].op = "read"
            => /\ pc[t] \in {"r_check", "r_lock", "r_cmd", "r_data", "r_stop"}
                    => gh[t].n12 = 0
               /\ gh[t].n12 = 1
                    => /\ pc[t] \in {"r_exit", "done"}
                       /\ loc[t].len > 1 /\ RespValid(gh[t].rdr1)
                       /\ wire.cmd = MMC_CMD_STOP_TRANSMISSION
               /\ (pc[t] = "done" /\ RespValid(gh[t].rdr1))
                    => gh[t].n12 = IF loc[t].len > 1 THEN 1 ELSE 0
               /\ (pc[t] = "done" /\ ~RespValid(gh[t].rdr1)) => gh[t].n12 = 0

\* a two-block read whose second block failed has sent CMD12 and returned
C18_StopAfterFailedBlock ==
    \E t \in Tasks :
        /\ ReadDone(t) /\ loc[t].len = 2 /\ gh[t].nbuf = 1
        /\ gh[t].bret = ETIMEDOUT /\ gh[t].n12 = 1
        /\ wire.cmd = MMC_CMD_STOP_TRANSMISSION

\* sector_count() has returned
SectorsDone(t) == pc[t] = "done" /\ loc[t].op = "sectors"

\* C19: a blk_read() or sector_count() in which a byte transfer failed
\* (command, response, data or CRC16 bytes) does not report success: the
\* read returns non-zero and the sector count returns no block count.
C19_NoTransferFailureSwallowed ==
    \A t \in Tasks :
        gh[t].xfail
            => /\ ReadDone(t) => loc[t].ret # OK
               /\ SectorsDone(t) => loc[t].blocks = 0

\* a read whose CRC16 byte transfer failed has stored the block and returned 0
C19_CrcTransferFailureSwallowed ==
    \E t \in Tasks :
        /\ ReadDone(t) /\ gh[t].xfail /\ gh[t].bout = "crc_xfer"
        /\ gh[t].bret = OK /\ loc[t].ret = OK

\* bits [hi:lo] of a 16-byte register, bit 0 being the lowest bit of the
\* last byte
RECURSIVE FieldAt(_, _, _)
FieldAt(csd, hi, lo) ==
    IF hi < lo THEN 0
    ELSE Bit(csd[16 - (hi \div 8)], hi % 8) * Pow2(hi - lo)
           + FieldAt(csd, hi - 1, lo)

\* (C_SIZE + 1) * 2^(C_SIZE_MULT + 2) * 2^READ_BL_LEN / 512 of a register
Csd0Blocks(csd) ==
    LET C_SIZE      == FieldAt(csd, 73, 62)
        C_SIZE_MULT == FieldAt(csd, 49, 47)
        READ_BL_LEN == FieldAt(csd, 83, 80)
        blocknr     == (C_SIZE + 1) * Pow2(C_SIZE_MULT + 2)
    IN  IF READ_BL_LEN >= 9 THEN blocknr * Pow2(READ_BL_LEN - 9)
        ELSE (blocknr * Pow2(READ_BL_LEN)) \div 512

\* C20: for every received CSD whose structure field is 0, sector_count()
\* returns and caches (C_SIZE + 1) * 2^(C_SIZE_MULT + 2) * 2^READ_BL_LEN / 512
\* with C_SIZE = [73:62], C_SIZE_MULT = [49:47] and READ_BL_LEN = [83:80].
C20_CsdV0Decode ==
    \A t \in Tasks :
        (/\ SectorsDone(t) /\ gh[t].csd # <<>>
         /\ FieldAt(CsdOf(gh[t].csd[1]), 127, 126) = 0)
            => /\ loc[t].blocks = Csd0Blocks(CsdOf(gh[t].csd[1]))
               /\ dev[loc[t].dev].num_blocks = Csd0Blocks(CsdOf(gh[t].csd[1]))

\* the register with C_SIZE = 0x3AB, C_SIZE_MULT = 2 and READ_BL_LEN = 9 was
\* decoded to (0x3AB + 1) * 16 blocks
C20_ExampleDecoded ==
    \E t \in Tasks :
        /\ SectorsDone(t) /\ gh[t].csd # <<>>
        /\ FieldAt(CsdOf(gh[t].csd[1]), 127, 126) = 0
        /\ FieldAt(CsdOf(gh[t].csd[1]), 73, 62) = 939
        /\ FieldAt(CsdOf(gh[t].csd[1]), 49, 47) = 2
        /\ FieldAt(CsdOf(gh[t].csd[1]), 83, 80) = 9
        /\ loc[t].blocks = 940 * 16
        /\ dev[loc[t].dev].num_blocks = 940 * 16

\* C21: for every received CSD whose structure version bit (bit 126) is set,
\* sector_count() returns and caches (C_SIZE + 1) << 10 with C_SIZE = [69:48].
C21_CsdV1Decode ==
    \A t \in Tasks :
        (/\ SectorsDone(t) /\ gh[t].csd # <<>>
         /\ FieldAt(CsdOf(gh[t].csd[1]), 126, 126) = 1)
            => /\ loc[t].blocks
                    = (FieldAt(CsdOf(gh[t].csd[1]), 69, 48) + 1) * Pow2(10)
               /\ dev[loc[t].dev].num_blocks
                    = (FieldAt(CsdOf(gh[t].csd[1]), 69, 48) + 1) * Pow2(10)

\* the version 2.0 register with C_SIZE = 0x1000 was decoded on the
\* version 1.0 path and gave no block at all
C21_V1DecodedAsV0 ==
    \E t \in Tasks :
        /\ SectorsDone(t) /\ gh[t].csd # <<>>
        /\ FieldAt(CsdOf(gh[t].csd[1]), 126, 126) = 1
        /\ FieldAt(CsdOf(gh[t].csd[1]), 69, 48) = 4096
        /\ loc[t].blocks = 0 /\ dev[loc[t].dev].num_blocks = 0

\* task t is past the wait of spi_transfer_dma()
PastDmaWait(t) ==
    /\ bloc[t].op = "transfer"
    /\ bpc[t] \in {"x_finish", "x_cs", "x_unlock", "done"}

\* C22: a DMA transfer for which the handler never released the semaphore
\* stops waiting by the 1000 ms timeout: it does not go on to wait for the
\* channels, spi_transfer_dma() returns -ETIMEDOUT and spi_mmc_transfer()
\* hands that on with chip-select deasserted.
C22_DmaTimeoutReturned ==
    \A t \in Tasks :
        (PastDmaWait(t) /\ (hist.helped[t] \/ bloc[t].ret = ETIMEDOUT))
            => /\ bpc[t] # "x_finish"
               /\ bloc[t].ret = ETIMEDOUT
               /\ bpc[t] \in {"x_unlock", "done"} => bloc[t].cs = "high"

\* no interrupt was raised or served, yet the wait of t1 was ended by the
\* permit that spi_unlock() of t2 added; t1 now waits, with no timeout, for
\* channels that are still busy
C22_WaitEndedByUnlock ==
    /\ bpc["t1"] = "x_finish" /\ hist.helped["t1"]
    /\ bloc["t2"].op = "transfer" /\ bpc["t2"] = "done"
    /\ bloc["t1"].bus = bloc["t2"].bus
    /\ bus[bloc["t1"].bus].busy /\ ~bus[bloc["t1"].bus].ints
    /\ ~hist.posted[bloc["t1"].bus] /\ ~Broken

\* the buses the scan of the registry reaches
Registered == {lst_e \in Buses :
                 \E k \in 1..list_count_nodes(lst, HEAD) :
                     list_entries(lst, HEAD)[k] = lst_e}

\* aurora_spi_init() ran to its end on b and b was not deinitialised since
BroughtUp(b) ==
    /\ bus[b].st = "live" /\ bus[b].initialized
    /\ lst[b].next \in Nodes /\ lst[b].prev \in Nodes

\* C23: every run of the interrupt handler serves each bus whose RX channel
\* had raised the interrupt when it was entered (flag cleared, semaphore
\* released), and the scan only ever yields registered buses.
C23_InterruptFanOut ==
    /\ ~hist.missed
    /\ isr.pc = "body" => isr.cfg \in Buses

\* both buses were brought up; the handler ran and returned, and the
\* interrupt of b1 is still pending because the scan does not reach b1
C23_RaisingBusNotFound ==
    /\ hist.missed /\ ~Broken /\ isr.pc = "off"
    /\ BroughtUp("b1") /\ BroughtUp("b2")
    /\ bus["b1"].ints /\ "b1" \notin Registered
    /\ \A t \in Tasks : bpc[t] \in {"idle", "x_wait"}

\* the handler stands at a mutex_enter_blocking(&spi_drivers.mutex)
IsrAtRegistryMutex == isr.pc \in {"num", "get"}

\* C24: the interrupt handler never waits on a mutex: whenever it needs the
\* registry, no interrupted task holds the registry mutex, so the handler
\* cannot block while a task registers or unregisters a bus.
C24_HandlerNeverBlocks == IsrAtRegistryMutex => lk.reg = NoTask

\* the handler interrupted t1 between mutex_enter_blocking() and mutex_exit()
\* of the registration and now waits for the mutex t1 holds: neither can go on
C24_HandlerWaitsForInterruptedTask ==
    /\ IsrAtRegistryMutex /\ lk.reg = "t1" /\ bpc["t1"] = "a_add"
    /\ ~Broken
    /\ ~ENABLED IsrNum /\ ~ENABLED IsrGet /\ ~ENABLED BusStep("t1")

\* no call and no handler is in progress
BusQuiet == isr.pc = "off" /\ \A t \in Tasks : bpc[t] = "idle"

\* the buses that are currently initialised
Initialised == {b \in Buses : bus[b].st = "live" /\ bus[b].initialized}

\* C25: after any sequence of aurora_spi_init() and aurora_spi_deinit()
\* calls the registry holds exactly the initialised buses, each once:
\* spi_get_num() is their number and the handler's scan reaches each.
C25_RegistryInvariant ==
    (BusQuiet /\ ~Broken)
        => /\ Registered = Initialised
           /\ list_count_nodes(lst, HEAD) = Cardinality(Initialised)

\* aurora_spi_init(b1) and aurora_spi_init(b2) have both run to their end,
\* and the registry holds b2 alone
C25_FirstBusDropped ==
    /\ BusQuiet /\ ~Broken
    /\ BroughtUp("b1") /\ BroughtUp("b2")
    /\ list_count_nodes(lst, HEAD) = 1 /\ Registered = {"b2"}

\* C26: teardown is safe: a bus whose state was released is not in the
\* registry, no released bus state is ever read or written (by a second
\* deinit, a re-init or the interrupt handler), and nothing is released twice.
C26_TeardownSafe ==
    /\ ~hist.uaf /\ ~hist.dfree
    /\ ~Broken => \A b \in Buses : bus[b].st = "freed" => b \notin Registered

\* a second aurora_spi_deinit() on a bus has read the initialized flag out
\* of the state the first one released
C26_SecondDeinitReadsReleasedState ==
    \E t \in Tasks :
        /\ bloc[t].op = "deinit" /\ bloc[t].bus \in Buses
        /\ bus[bloc[t].bus].st = "freed"
        /\ bpc[t] \in {"d_lock", "done"}
        /\ hist.uaf /\ ~hist.wild /\ ~hist.dfree

\* C27: every ACMD41 frame on the wire directly follows a CMD55 frame of the
\* same send-command call that was answered with a valid R1, and a CMD55
\* without a valid answer ends the call with an error and no ACMD41 frame.
C27_AcmdFraming ==
    [][\A t \in Tasks :
         /\ (pc[t] = "v_a41" /\ pc'[t] # "v_a41")
               => /\ wire'.cmd = SD_CMD_APP_SEND_OP_COND /\ wire'.task = t
                  /\ wire.cmd = MMC_CMD_APP_CMD /\ wire.task = t
                  /\ wire.dev = wire'.dev
                  /\ RespValid(gh[t].r55)
         /\ (pc[t] = "v_a55" /\ pc'[t] # "v_a55" /\ ~RespValid(gh'[t].r55))
               => /\ pc'[t] = "i_exit" /\ loc'[t].ret = EIO
                  /\ wire'.cmd = MMC_CMD_APP_CMD]_vars

\* the CMD55 of t1 was answered with a valid R1 and t1 is about to send
\* ACMD41, but the last frame on the wire is the CMD9 of t2
C27_ForeignFrameAfterCmd55 ==
    /\ pc["t1"] = "v_a41" /\ RespValid(gh["t1"].r55)
    /\ wire.task = "t2" /\ wire.cmd = MMC_CMD_SEND_CSD
    /\ loc["t2"].op = "sectors" /\ ~gh["t2"].locked

(* ------------------------------------------------------------------ *)
(* C28: the low bus rate is confined to card bring-up                   *)
(* ------------------------------------------------------------------ *)
BringUpCmds == {CMD_INIT_CLOCKS, MMC_CMD_GO_IDLE_STATE, MMC_CMD_SEND_EXT_CSD,
                MMC_CMD_APP_CMD, SD_CMD_APP_SEND_OP_COND, MMC_CMD_SPI_READ_OCR}

BlockIoCmds == {MMC_CMD_READ_SINGLE_BLOCK, MMC_CMD_READ_MULTIPLE_BLOCK,
                MMC_CMD_STOP_TRANSMISSION}

\* C28: every frame of the bring-up goes out at the 400 kHz rate, the bus is
\* at the configured rate when a successful probe() returns, and no frame
\* of a block read goes out at the low rate.
C28_LowSpeedOnlyInBringUp ==
    /\ wire.cmd \in BringUpCmds => wire.baud = "low"
    /\ \A t \in Tasks :
         (pc[t] = "done" /\ loc[t].op = "probe" /\ loc[t].ret = OK)
             => baud = "cfg"
    /\ wire.cmd \in BlockIoCmds => wire.baud = "cfg"

\* a read frame for a card that has been brought up goes out at 400 kHz
\* while the other card is in its bring-up
C28_BlockReadAtLowRate ==
    /\ wire.cmd \in BlockIoCmds /\ wire.dev = "d1" /\ wire.baud = "low"
    /\ dev["d1"].initialized
    /\ \E t \in Tasks : loc[t].op = "probe" /\ loc[t].dev = "d2"
                        /\ pc[t] \notin {"idle", "done"}

(* ------------------------------------------------------------------ *)
(* C29, C30: disarming and boost detection of the flight state machine  *)
(* ------------------------------------------------------------------ *)
\* C29: after an sm_update() with armed = 0 the state is SM_IDLE, whatever
\* the state before the call and whatever the other inputs.
C29_DisarmGoesIdle ==
    (smh.op = "update" /\ smh.armed = 0) => current_state = "SM_IDLE"

\* a landed machine is disarmed
C29_DisarmedFromLanded ==
    /\ smh.op = "update" /\ smh.armed = 0
    /\ smh.prev = "SM_LANDED" /\ current_state = "SM_IDLE"

\* C30: SM_ARMED changes to SM_BOOST only on an update at which both boost
\* conditions hold, they held on every update since the one that started
\* dt_ab, and DT_AB ms have passed since; an update in SM_ARMED on which a
\* condition fails leaves the confirmation off (it restarts from zero) and
\* the state not SM_BOOST.
C30_BoostDetection ==
    /\ (smh.op = "update" /\ smh.prev = "SM_ARMED"
        /\ current_state = "SM_BOOST")
           => /\ smh.met /\ smh.ab_held
              /\ smh.ab_ms >= th.DT_AB
    /\ (smh.op = "update" /\ smh.prev = "SM_ARMED" /\ smh.armed # 0
        /\ ~smh.met)
           => /\ current_state # "SM_BOOST"
              /\ running_timers["dt_ab"] = 0
              /\ ~smh.ab_held

\* boost is detected with the configured thresholds after the full wait
C30_BoostAfterConfirmation ==
    /\ smh.op = "update" /\ smh.prev = "SM_ARMED"
    /\ current_state = "SM_BOOST"
    /\ th = simple_state_cfg /\ smh.ab_ms >= simple_state_cfg.DT_AB

(* ------------------------------------------------------------------ *)
(* C31..C34: arming, orientation abort, the MAIN timer and reset        *)
(* ------------------------------------------------------------------ *)
\* C31: from SM_IDLE an update moves to SM_ARMED if and only if armed is
\* non-zero and orientation >= T_OA; otherwise the state stays SM_IDLE.
C31_ArmingCondition ==
    (smh.op = "update" /\ smh.prev = "SM_IDLE")
        => /\ current_state = "SM_ARMED" <=> (smh.armed # 0 /\ smh.oa)
           /\ current_state \in {"SM_IDLE", "SM_ARMED"}

\* armed with the orientation below T_OA: the machine stays idle
C31_ArmedButTilted ==
    /\ smh.op = "update" /\ smh.prev = "SM_IDLE" /\ th = simple_state_cfg
    /\ smh.armed # 0 /\ ~smh.oa /\ current_state = "SM_IDLE"

\* C32: from SM_ARMED with armed non-zero an update with orientation < T_OI
\* returns to SM_IDLE and leaves the DT_AB confirmation off, so boost is
\* reached only after the conditions held for a full DT_AB since a new
\* timer start.
C32_OrientationAbort ==
    /\ (smh.op = "update" /\ smh.prev = "SM_ARMED" /\ smh.armed # 0
        /\ smh.oi)
           => /\ current_state = "SM_IDLE"
              /\ running_timers["dt_ab"] = 0
              /\ ~timer["dt_ab"].active
    /\ (smh.op = "update" /\ current_state = "SM_BOOST"
        /\ smh.prev = "SM_ARMED")
           => smh.ab_held /\ smh.ab_ms >= th.DT_AB

\* the abort came when the confirmation timer had already expired
C32_AbortedAfterExpiry ==
    /\ smh.op = "update" /\ smh.prev = "SM_ARMED" /\ smh.armed # 0 /\ smh.oi
    /\ th = simple_state_cfg /\ current_state = "SM_IDLE"
    /\ timer["dt_ab"].status = 1

\* C33: once in SM_MAIN with armed non-zero, the machine moves to
\* SM_REDUNDAND on the first update at least TO_M ms after it entered
\* SM_MAIN, and not before.
C33_MainLastsToM ==
    /\ (smh.op = "update" /\ smh.prev = "SM_MAIN" /\ smh.armed # 0
        /\ smh.main_ms >= th.TO_M)
           => current_state = "SM_REDUNDAND"
    /\ (smh.op = "update" /\ smh.prev = "SM_MAIN"
        /\ current_state = "SM_REDUNDAND")
           => smh.main_ms >= th.TO_M

\* an armed machine is still in SM_MAIN on an update TO_M ms after it
\* entered that state
C33_StuckInMain ==
    /\ smh.op = "update" /\ smh.prev = "SM_MAIN" /\ smh.armed # 0
    /\ th = simple_state_cfg /\ smh.main_ms >= simple_state_cfg.TO_M
    /\ current_state = "SM_MAIN"

PhaseOf(st) == CHOOSE k \in 1..Len(SmOrder) : SmOrder[k] = st

\* C38: an update leaves the state unchanged, advances it to its immediate
\* successor in the flight order, or returns it to SM_IDLE; SM_LANDED is
\* left only by an update with armed = 0.
C38_SingleStep ==
    smh.op = "update"
        => /\ \/ current_state = smh.prev
              \/ current_state = "SM_IDLE"
              \/ PhaseOf(current_state) = PhaseOf(smh.prev) + 1
           /\ (smh.prev = "SM_LANDED" /\ current_state # "SM_LANDED")
                  => smh.armed = 0

\* the landing is detected from SM_REDUNDAND
C38_LandedFromRedundand ==
    /\ smh.op = "update" /\ smh.prev = "SM_REDUNDAND"
    /\ current_state = "SM_LANDED"

(* ------------------------------------------------------------------ *)
(* C39: nothing is carried across a reset                               *)
(* ------------------------------------------------------------------ *)
\* C39: after sm_deinit() followed by sm_init(cfg), every sequence of
\* updates and elapsed times takes the machine through the same states as
\* a freshly started machine given the same inputs.
C39_ResetForgets ==
    smh.twin.on => current_state = smh.twin.state

\* a machine that was reset while it remembered an altitude the fresh one
\* has not seen; both go on to detect the apogee
C39_ApogeeAfterReset ==
    /\ smh.twin.on /\ smh.twin.carried /\ smh.op = "update"
    /\ smh.prev = "SM_BURNOUT" /\ current_state = "SM_APOGEE"
    /\ smh.twin.state = "SM_APOGEE"

(* ------------------------------------------------------------------ *)
(* C40: the sensor board arms the state machine                         *)
(* ------------------------------------------------------------------ *)
\* C40: the state-machine task presents the system as armed on every
\* update, so an update made in SM_IDLE with the orientation of the IMU at
\* or above T_OA takes the machine to SM_ARMED.
C40_BoardArms ==
    (board.pc = "sleep" /\ smh.op = "update")
        => /\ smh.armed # 0
           /\ (smh.prev = "SM_IDLE" /\ smh.oa) => current_state = "SM_ARMED"

\* the task has updated the machine with the rocket upright and the machine
\* is still idle
C40_UprightButIdle ==
    /\ board.pc = "sleep" /\ smh.op = "update"
    /\ board.orientation >= th.T_OA /\ th = simple_state_cfg
    /\ smh.prev = "SM_IDLE" /\ smh.oa
    /\ current_state = "SM_IDLE"

(* ------------------------------------------------------------------ *)
(* C35..C37: the semaphore of a bus, the DMA assertions, the deinit     *)
(* mutex                                                                *)
(* ------------------------------------------------------------------ *)
\* C35: the completion released by the interrupt handler is taken only by
\* the task that waits for it in spi_transfer_dma(), never by the
\* spi_lock() of another task, and a wait for the completion is never
\* ended by the spi_unlock() of another task.
C35_LockAndCompletionApart ==
    \A t \in Tasks : ~hist.took[t] /\ ~hist.helped[t]

\* spi_lock() of one task has taken the completion while the other task is
\* still waiting for it
C35_CompletionTakenByLock ==
    \E t, u \in Tasks :
        /\ t # u /\ hist.took[t] /\ bpc[t] = "x_start"
        /\ bpc[u] = "x_wait" /\ bloc[u].bus = bloc[t].bus
        /\ bus[bloc[t].bus].sem = 0

\* the handler is at the bus whose interrupt it has just served
JustServed(b) == isr.pc = "num" /\ isr.cfg = b /\ hist.posted[b]

\* C36: when the interrupt handler serves a bus, the semaphore of the bus
\* had no permit and the release added one; and when a DMA transfer is
\* started no completion interrupt of the bus is pending.
C36_DmaAssertionsHold ==
    /\ ~hist.late
    /\ \A t \in Tasks :
         (bpc[t] = "x_wait" /\ bloc[t].bus \in Buses
          /\ bus[bloc[t].bus].busy) => ~bus[bloc[t].bus].ints

\* the transfer has timed out and returned, the bus is unlocked, and the
\* handler serves the completion that came afterwards: the semaphore
\* already had its permit
C36_LateCompletionServed ==
    \E b \in Buses :
        /\ JustServed(b) /\ hist.late
        /\ bus[b].sem = SEM_MAX_PERMITS
        /\ \A t \in Tasks : bpc[t] = "idle"

\* no task is inside aurora_spi_deinit()
OutsideDeinit == \A t \in Tasks : bloc[t].op # "deinit" \/ bpc[t] = "idle"

\* C37: aurora_spi_deinit() releases its guard mutex on every return path:
\* whenever a call has returned, and when no call is in progress, the mutex
\* is free.
C37_DeinitMutexReleased ==
    /\ \A t \in Tasks :
         (bloc[t].op = "deinit" /\ bpc[t] = "done") => lk.deinit # t
    /\ OutsideDeinit => lk.deinit = NoTask

\* a deinit of a bus that is not initialised has returned and the task still
\* owns the mutex
C37_MutexKeptAfterEarlyReturn ==
    \E t \in Tasks :
        /\ bloc[t].op = "deinit" /\ bpc[t] = "done"
        /\ bloc[t].bus \in Buses /\ ~bus[bloc[t].bus].initialized
        /\ lk.deinit = t

====
